---- MODULE Spec2Model ----
(***************************************************************************)
(* Model of the scraper scripts of tekteku/scraper.  Every script is a     *)
(* sequential program of its own; each is modelled as a state machine over *)
(* its own variables (prefixed by the script), with one specification per  *)
(* script.  The web site, the browser and the HTTP session are the         *)
(* environment: what they serve or throw is drawn with \E in the actions.  *)
(***************************************************************************)
EXTENDS Integers, Sequences, FiniteSets, TLC

VARIABLES
    \* tecnocasa_patient_scraper.scrape_tecnocasa_region
    tc_pc,                \* position in the function
    tc_page_count,        \* page_count
    tc_region_properties, \* len(region_properties), saturating at MaxAdmitted
    tc_pages_processed,   \* iterations of the page loop started so far
    tc_sel,               \* index in next_page_selectors (1-based)
    tc_click_attempts,    \* click_attempts
    tc_next_clicked,      \* next_clicked
    tc_performed,         \* the attempt that set clicked performed a click, a JS click or a goto
    \* single_site_scraper.scrape_site
    ss_pc,                \* position in the function
    ss_max_pages,         \* the max_pages argument
    ss_page_count,        \* page_count
    ss_clicks,            \* next-page clicks performed during the call
    ss_fb,                \* index in fallback_next_selectors (1-based)
    ss_next_clicked,      \* next_clicked
    ss_property_selector, \* config["property_selector"] of the domain's entry in SITE_CONFIGS / DEFAULT_CONFIG
    \* tunisian_property_scraper.extract_property
    ep_pc,                \* position: "idle", "called", "returned"
    ep_item,              \* property_item: per field, what each candidate selector yields
    ep_data,              \* property_data
    \* real_estate_scraper.extract_text / extract_attribute
    re_pc,                \* position: "idle", "called", "returned"
    re_fn,                \* the function called
    re_dom,               \* what the page holds for the selector passed
    re_result,            \* how the call ended: raised or returned a value
    \* tunisian_property_scraper.main
    mn_pc,                \* position in main
    mn_site,              \* index in SITE_CONFIGS of the site being scraped
    mn_returned,          \* sites whose scrape function returned to main
    mn_by_specialized,    \* Remax listings in all_properties, appended by scrape_remax_site
    mn_by_standard,       \* Remax listings in all_properties, appended by scrape_properties
    \* tunisian_property_scraper.scrape_properties
    tp_pc,                \* position in the function
    tp_goto_failed,       \* the initial page.goto of this call threw
    tp_domain_bound,      \* the local variable domain has been assigned
    tp_page_count,        \* page_count
    tp_sel,               \* index in pagination_selectors (1-based)
    tp_next_page_found,   \* next_page_found
    tp_clicks,            \* next-page clicks performed since the last page was processed
    \* material_scraper.MaterialScraper.scrape_with_requests
    ms_pc,                \* position in the method
    ms_max_pages,         \* site_config["max_pages"]
    ms_page,              \* the loop variable page
    ms_requests,          \* the URLs passed to session.get, in order
    ms_failed,            \* pages whose fetch or parse threw
    ms_materials,         \* self.materials
    \* multi_site_patient_scraper.scrape_properties
    mp_pc,                \* position in the function
    mp_site,              \* index in SITE_CONFIGS of config
    mp_max_pages,         \* config["max_pages"]
    mp_attempt,           \* initial page loads attempted
    mp_page_loaded,       \* page_loaded
    mp_page_count,        \* page_count
    mp_url,               \* page.url: its page-number parameter, 0 when it has none
    mp_left,              \* listings of the page not processed yet
    mp_listing,           \* the fields extracted from the last listing
    mp_appended,          \* the last listing was appended to site_properties
    mp_n_properties,      \* len(site_properties)
    mp_sel,               \* index in next_page_selectors (1-based)
    mp_click_attempts,    \* click_attempts
    mp_next_clicked,      \* next_clicked
    mp_nav,               \* the last URL-based navigation: page_count before, page asked
    \* simple_material_scraper.SimpleMaterialScraper.scrape_site_with_requests
    sm_pc,                \* position in the method
    sm_pages_left,        \* search pages not requested yet
    sm_products_left,     \* products of the page not processed yet
    sm_materials,         \* self.materials
    \* price_comparator.MaterialPriceComparator.compare_prices
    cp_pc,                \* position in the method
    cp_groups_left,       \* groups of similar_groups not visited yet
    cp_group,             \* group_data of the last group visited
    cp_row,               \* the last comparison appended
    cp_n_comparisons,     \* len(comparisons)
    \* price_comparator.main: load, find_similar_products, compare_prices
    fs_pc,                \* position in main
    fs_data,              \* self.data, the table of listings
    fs_similar_groups,    \* similar_groups: each group the row indices of its members
    fs_comparisons,       \* comparisons, each with its row and its details
    \* material_scraper / brico_direct_scraper : clean_price
    pp_pc,                \* position of the call
    pp_fn,                \* the class whose clean_price is called
    pp_text,              \* price_text
    pp_result,            \* the value returned
    \* material_scraper.MaterialScraper.categorize_material
    cm_pc,                \* position of the call
    cm_name,              \* name
    cm_description,       \* description
    cm_result,            \* the category returned
    \* simple_material_scraper.SimpleMaterialScraper.extract_unit
    su_pc,                \* position of the call
    su_text,              \* text
    su_result,            \* the unit returned
    \* remax_hash_pagination.handle_remax_hash_pagination
    hr_pc,                \* position of the call
    hr_current_url,       \* current_url
    hr_page_number,       \* page_number
    hr_result,            \* the URL returned
    hr_next_page,         \* the page number of the call made on the returned URL
    hr_twice,             \* what that call returns
    hr_once,              \* what the call on the first URL returns for that page number
    \* remax_integration.scrape_remax_site
    rx_pc,                \* position in the function
    rx_type,              \* handler["type"]
    rx_browser_page,      \* browser_page is given
    rx_max_pages,         \* max_pages
    rx_page_count,        \* page_count
    rx_found,             \* listings present on the pages navigated to
    rx_all_properties,    \* len(all_properties)
    \* devis_generator.DevisGenerator
    dg_now,               \* datetime.now(), in seconds since the generator was built
    dg_devis,             \* the devis created so far: records of numero and files
    dg_files,             \* the working directory: filename -> devis written last
    \* price_monitor.PriceMonitor
    pm_pc,                \* position in detect_price_changes and its callees
    pm_history,           \* price_history of one (product_name, site): age in days -> price
    pm_email_configured,  \* email_config['email'] was changed from its placeholder
    pm_changes,           \* the rows of the changes data frame
    pm_alerts,            \* price_alerts, in id order
    pm_detects,           \* calls of detect_price_changes so far
    pm_fresh,             \* price data was stored since the last detect_price_changes
    pm_repeat,            \* the last detect_price_changes followed one that inserted its alert, no store between
    pm_inserted,          \* alerts inserted by the running detect_price_changes
    \* price_monitor.PriceMonitor.__init__
    pi_pc,                \* position in the constructor
    pi_logger,            \* self.logger is assigned
    pi_history_table,     \* rows of price_history in the file at db_path, pi_NoTable without the table
    pi_alerts_table       \* rows of price_alerts in the file at db_path, pi_NoTable without the table

tc_vars == <<tc_pc, tc_page_count, tc_region_properties, tc_pages_processed,
             tc_sel, tc_click_attempts, tc_next_clicked, tc_performed>>

ss_vars == <<ss_pc, ss_max_pages, ss_page_count, ss_clicks, ss_fb,
             ss_next_clicked, ss_property_selector>>

ep_vars == <<ep_pc, ep_item, ep_data>>

re_vars == <<re_pc, re_fn, re_dom, re_result>>

mn_vars == <<mn_pc, mn_site, mn_returned, mn_by_specialized, mn_by_standard>>

tp_vars == <<tp_pc, tp_goto_failed, tp_domain_bound, tp_page_count, tp_sel,
             tp_next_page_found, tp_clicks>>

ms_vars == <<ms_pc, ms_max_pages, ms_page, ms_requests, ms_failed, ms_materials>>

mp_vars == <<mp_pc, mp_site, mp_max_pages, mp_attempt, mp_page_loaded,
             mp_page_count, mp_url,
             mp_left, mp_listing, mp_appended, mp_n_properties, mp_sel,
             mp_click_attempts, mp_next_clicked, mp_nav>>

sm_vars == <<sm_pc, sm_pages_left, sm_products_left, sm_materials>>

cp_vars == <<cp_pc, cp_groups_left, cp_group, cp_row, cp_n_comparisons>>

fs_vars == <<fs_pc, fs_data, fs_similar_groups, fs_comparisons>>

pp_vars == <<pp_pc, pp_fn, pp_text, pp_result>>

cm_vars == <<cm_pc, cm_name, cm_description, cm_result>>

su_vars == <<su_pc, su_text, su_result>>

hr_vars == <<hr_pc, hr_current_url, hr_page_number, hr_result, hr_next_page, hr_twice, hr_once>>

rx_vars == <<rx_pc, rx_type, rx_browser_page, rx_max_pages, rx_page_count, rx_found, rx_all_properties>>

dg_vars == <<dg_now, dg_devis, dg_files>>

pm_vars == <<pm_pc, pm_history, pm_email_configured, pm_changes, pm_alerts, pm_detects, pm_fresh, pm_repeat, pm_inserted>>

pi_vars == <<pi_pc, pi_logger, pi_history_table, pi_alerts_table>>

vars == <<tc_vars, ss_vars, ep_vars, re_vars, mn_vars, tp_vars, ms_vars, mp_vars, sm_vars, cp_vars, fs_vars, pp_vars, cm_vars, su_vars, hr_vars, rx_vars, dg_vars, pm_vars, pi_vars>>

\* what each script leaves alone: the variables of the other scripts
tc_frame == <<ss_vars, ep_vars, re_vars, mn_vars, tp_vars, ms_vars, mp_vars, sm_vars, cp_vars, fs_vars, pp_vars, cm_vars, su_vars, hr_vars, rx_vars, dg_vars, pm_vars, pi_vars>>
ss_frame == <<tc_vars, ep_vars, re_vars, mn_vars, tp_vars, ms_vars, mp_vars, sm_vars, cp_vars, fs_vars, pp_vars, cm_vars, su_vars, hr_vars, rx_vars, dg_vars, pm_vars, pi_vars>>
ep_frame == <<tc_vars, ss_vars, re_vars, mn_vars, tp_vars, ms_vars, mp_vars, sm_vars, cp_vars, fs_vars, pp_vars, cm_vars, su_vars, hr_vars, rx_vars, dg_vars, pm_vars, pi_vars>>
re_frame == <<tc_vars, ss_vars, ep_vars, mn_vars, tp_vars, ms_vars, mp_vars, sm_vars, cp_vars, fs_vars, pp_vars, cm_vars, su_vars, hr_vars, rx_vars, dg_vars, pm_vars, pi_vars>>
mn_frame == <<tc_vars, ss_vars, ep_vars, re_vars, ms_vars, mp_vars, sm_vars, cp_vars, fs_vars, pp_vars, cm_vars, su_vars, hr_vars, rx_vars, dg_vars, pm_vars, pi_vars>>
ms_frame == <<tc_vars, ss_vars, ep_vars, re_vars, mn_vars, tp_vars, mp_vars, sm_vars, cp_vars, fs_vars, pp_vars, cm_vars, su_vars, hr_vars, rx_vars, dg_vars, pm_vars, pi_vars>>
mp_frame == <<tc_vars, ss_vars, ep_vars, re_vars, mn_vars, tp_vars, ms_vars, sm_vars, cp_vars, fs_vars, pp_vars, cm_vars, su_vars, hr_vars, rx_vars, dg_vars, pm_vars, pi_vars>>
sm_frame == <<tc_vars, ss_vars, ep_vars, re_vars, mn_vars, tp_vars, ms_vars, mp_vars, cp_vars, fs_vars, pp_vars, cm_vars, su_vars, hr_vars, rx_vars, dg_vars, pm_vars, pi_vars>>
cp_frame == <<tc_vars, ss_vars, ep_vars, re_vars, mn_vars, tp_vars, ms_vars, mp_vars, sm_vars, fs_vars, pp_vars, cm_vars, su_vars, hr_vars, rx_vars, dg_vars, pm_vars, pi_vars>>
fs_frame == <<tc_vars, ss_vars, ep_vars, re_vars, mn_vars, tp_vars, ms_vars, mp_vars, sm_vars, cp_vars, pp_vars, cm_vars, su_vars, hr_vars, rx_vars, dg_vars, pm_vars, pi_vars>>
pp_frame == <<tc_vars, ss_vars, ep_vars, re_vars, mn_vars, tp_vars, ms_vars, mp_vars, sm_vars, cp_vars, fs_vars, cm_vars, su_vars, hr_vars, rx_vars, dg_vars, pm_vars, pi_vars>>
cm_frame == <<tc_vars, ss_vars, ep_vars, re_vars, mn_vars, tp_vars, ms_vars, mp_vars, sm_vars, cp_vars, fs_vars, pp_vars, su_vars, hr_vars, rx_vars, dg_vars, pm_vars, pi_vars>>
su_frame == <<tc_vars, ss_vars, ep_vars, re_vars, mn_vars, tp_vars, ms_vars, mp_vars, sm_vars, cp_vars, fs_vars, pp_vars, cm_vars, hr_vars, rx_vars, dg_vars, pm_vars, pi_vars>>
hr_frame == <<tc_vars, ss_vars, ep_vars, re_vars, mn_vars, tp_vars, ms_vars, mp_vars, sm_vars, cp_vars, fs_vars, pp_vars, cm_vars, su_vars, rx_vars, dg_vars, pm_vars, pi_vars>>
rx_frame == <<tc_vars, ss_vars, ep_vars, re_vars, mn_vars, tp_vars, ms_vars, mp_vars, sm_vars, cp_vars, fs_vars, pp_vars, cm_vars, su_vars, hr_vars, dg_vars, pm_vars, pi_vars>>
dg_frame == <<tc_vars, ss_vars, ep_vars, re_vars, mn_vars, tp_vars, ms_vars, mp_vars, sm_vars, cp_vars, fs_vars, pp_vars, cm_vars, su_vars, hr_vars, rx_vars, pm_vars, pi_vars>>
pm_frame == <<tc_vars, ss_vars, ep_vars, re_vars, mn_vars, tp_vars, ms_vars, mp_vars, sm_vars, cp_vars, fs_vars, pp_vars, cm_vars, su_vars, hr_vars, rx_vars, dg_vars, pi_vars>>
pi_frame == <<tc_vars, ss_vars, ep_vars, re_vars, mn_vars, tp_vars, ms_vars, mp_vars, sm_vars, cp_vars, fs_vars, pp_vars, cm_vars, su_vars, hr_vars, rx_vars, dg_vars, pm_vars>>

(***************************************************************************)
(* tecnocasa_patient_scraper.py : scrape_tecnocasa_region                  *)
(***************************************************************************)
tc_max_pages == 15

\* len(next_page_selectors)
tc_n_next_selectors == 12

\* listings admitted on one page are drawn from 0..MaxAdmitted
MaxAdmitted == 2

\* the page loop's iterations are counted up to this many past max_pages
MaxOverrun == 1

TcInit ==
    /\ tc_pc = "idle"
    /\ tc_page_count = 0
    /\ tc_region_properties = 0
    /\ tc_pages_processed = 0
    /\ tc_sel = 0
    /\ tc_click_attempts = 0
    /\ tc_next_clicked = FALSE
    /\ tc_performed = FALSE

\* line 172-173: page_count = 1 once the region's first page is loaded
TcStart ==
    /\ tc_pc = "idle"
    /\ tc_pc' = "loop"
    /\ tc_page_count' = 1
    /\ tc_region_properties' = 0
    /\ tc_pages_processed' = 0
    /\ UNCHANGED <<tc_sel, tc_click_attempts, tc_next_clicked, tc_performed>>

\* while page_count <= max_pages: false, the loop is left
TcLoopExit ==
    /\ tc_pc = "loop"
    /\ ~(tc_page_count <= tc_max_pages)
    /\ tc_pc' = "done"
    /\ UNCHANGED <<tc_page_count, tc_region_properties, tc_pages_processed,
                   tc_sel, tc_click_attempts, tc_next_clicked, tc_performed>>

\* where the body goes after the listings of the page were processed
\* (lines 602-609, 734-736): the whole pagination block is nested in
\* "if region_properties:"
TcAfterListings(props, page_count) ==
    IF props > 0
    THEN IF page_count < tc_max_pages THEN "next" ELSE "done"
    ELSE "loop"

\* one iteration of the page loop up to the pagination block (lines 176-609):
\* found = some container selector matched, admitted = listings that passed
\* the admission test of line 590 on this page
TcProcessPage ==
    /\ tc_pc = "loop"
    /\ tc_page_count <= tc_max_pages
    /\ tc_pages_processed < tc_max_pages + MaxOverrun
    /\ tc_pages_processed' = tc_pages_processed + 1
    /\ \E found \in BOOLEAN, admitted \in 0..MaxAdmitted :
        /\ (~found => admitted = 0)
        /\ IF ~found /\ tc_page_count # 1
           THEN \* line 256: break
                /\ tc_pc' = "done"
                /\ UNCHANGED <<tc_region_properties, tc_sel, tc_next_clicked, tc_performed>>
           ELSE LET total == tc_region_properties + admitted
                    props == IF total > MaxAdmitted THEN MaxAdmitted ELSE total
                IN  /\ tc_region_properties' = props
                    /\ tc_pc' = TcAfterListings(props, tc_page_count)
                    /\ tc_sel' = 1
                    /\ tc_next_clicked' = FALSE
    /\ UNCHANGED <<tc_page_count, tc_click_attempts, tc_performed>>

\* line 181: page.screenshot throws; the function's except (line 752) ends it
TcPageError ==
    /\ tc_pc = "loop"
    /\ tc_page_count <= tc_max_pages
    /\ tc_pc' = "done"
    /\ UNCHANGED <<tc_page_count, tc_region_properties, tc_pages_processed,
                   tc_sel, tc_click_attempts, tc_next_clicked, tc_performed>>

\* lines 631-639, 726-729: the selector matches nothing, is not visible, or
\* the query throws: the for loop goes on to the next selector
TcSelectorSkip ==
    /\ tc_pc = "next"
    /\ tc_sel <= tc_n_next_selectors
    /\ tc_sel' = tc_sel + 1
    /\ UNCHANGED <<tc_pc, tc_page_count, tc_region_properties,
                   tc_pages_processed, tc_click_attempts, tc_next_clicked, tc_performed>>

\* lines 639-650: the selector's button is visible
TcSelectorVisible ==
    /\ tc_pc = "next"
    /\ tc_sel <= tc_n_next_selectors
    /\ tc_pc' = "click"
    /\ tc_click_attempts' = 0
    /\ tc_performed' = FALSE
    /\ UNCHANGED <<tc_page_count, tc_region_properties, tc_pages_processed,
                   tc_sel, tc_next_clicked>>

\* lines 664-669: the third attempt navigates to the link's href, and only
\* "if href"; clicked = True follows either way (line 671)
tc_Performed(click_attempts, href) == click_attempts < 2 \/ href

\* lines 652-674: one pass of "while click_attempts < 3 and not clicked";
\* ok = the attempt's click / evaluate / get_attribute / goto did not throw
TcClickAttempt ==
    /\ tc_pc = "click"
    /\ tc_click_attempts < 3
    /\ \E ok, href \in BOOLEAN :
        IF ok
        THEN /\ tc_pc' = "clicked"
             /\ tc_performed' = tc_Performed(tc_click_attempts, href)
             /\ UNCHANGED tc_click_attempts
        ELSE /\ tc_click_attempts' = tc_click_attempts + 1
             /\ UNCHANGED <<tc_pc, tc_performed>>
    /\ UNCHANGED <<tc_page_count, tc_region_properties, tc_pages_processed,
                   tc_sel, tc_next_clicked>>

\* line 676: "if clicked" is false after three failed attempts
TcClickGiveUp ==
    /\ tc_pc = "click"
    /\ tc_click_attempts >= 3
    /\ tc_pc' = "next"
    /\ tc_sel' = tc_sel + 1
    /\ UNCHANGED <<tc_page_count, tc_region_properties, tc_pages_processed,
                   tc_click_attempts, tc_next_clicked, tc_performed>>

\* lines 676-725: page_count += 1, next_clicked = True; then the scrolls
\* either pass (break, back to the while) or throw (line 724: the for loop
\* goes on with the next selector)
TcAfterClick ==
    /\ tc_pc = "clicked"
    /\ tc_page_count' = tc_page_count + 1
    /\ tc_next_clicked' = TRUE
    /\ \E scroll_ok \in BOOLEAN :
        IF scroll_ok
        THEN /\ tc_pc' = "loop"
             /\ UNCHANGED tc_sel
        ELSE /\ tc_pc' = "next"
             /\ tc_sel' = tc_sel + 1
    /\ UNCHANGED <<tc_region_properties, tc_pages_processed, tc_click_attempts,
                   tc_performed>>

\* lines 731-733: the selectors are exhausted
TcSelectorsDone ==
    /\ tc_pc = "next"
    /\ tc_sel > tc_n_next_selectors
    /\ tc_pc' = IF tc_next_clicked THEN "loop" ELSE "done"
    /\ UNCHANGED <<tc_page_count, tc_region_properties, tc_pages_processed,
                   tc_sel, tc_click_attempts, tc_next_clicked, tc_performed>>

TcNext ==
    \/ TcStart /\ UNCHANGED tc_frame
    \/ TcLoopExit /\ UNCHANGED tc_frame
    \/ TcProcessPage /\ UNCHANGED tc_frame
    \/ TcPageError /\ UNCHANGED tc_frame
    \/ TcSelectorSkip /\ UNCHANGED tc_frame
    \/ TcSelectorVisible /\ UNCHANGED tc_frame
    \/ TcClickAttempt /\ UNCHANGED tc_frame
    \/ TcClickGiveUp /\ UNCHANGED tc_frame
    \/ TcAfterClick /\ UNCHANGED tc_frame
    \/ TcSelectorsDone /\ UNCHANGED tc_frame

(***************************************************************************)
(* single_site_scraper.py : scrape_site                                    *)
(***************************************************************************)
\* len(fallback_next_selectors)
ss_n_fallback_next == 9

\* the max_pages argument is drawn from 1..MaxPagesArg
MaxPagesArg == 3

\* lines 219-222: fallback_selectors
ss_n_fallback_selectors == 11

\* the property_selector the configuration was written with; the fallback
\* selectors are numbered 1..ss_n_fallback_selectors
ss_configured == 0

\* lines 209-233: config["property_selector"] after the wait for the
\* listings: as it was when the wait passes (found) or no fallback selector
\* matches (k = 0), else the first fallback selector that matches, k, which
\* line 227 writes into config, the dictionary get_site_config returned
\* (line 161: the entry of SITE_CONFIGS or DEFAULT_CONFIG itself, no copy)
ss_SelectorAfterWait(selector, found, k) ==
    IF found \/ k = 0 THEN selector ELSE k

SsInit ==
    /\ ss_pc = "idle"
    /\ ss_max_pages = 0
    /\ ss_page_count = 0
    /\ ss_clicks = 0
    /\ ss_fb = 0
    /\ ss_next_clicked = FALSE
    /\ ss_property_selector = ss_configured

\* lines 163-198: the call, up to page_count = 1
SsStart ==
    /\ ss_pc = "idle"
    /\ \E max_pages \in 1..MaxPagesArg : ss_max_pages' = max_pages
    /\ ss_pc' = "loop"
    /\ ss_page_count' = 1
    /\ ss_clicks' = 0
    /\ UNCHANGED <<ss_fb, ss_next_clicked, ss_property_selector>>

\* line 201: while page_count <= max_pages is false
SsLoopExit ==
    /\ ss_pc = "loop"
    /\ ~(ss_page_count <= ss_max_pages)
    /\ ss_pc' = "done"
    /\ UNCHANGED <<ss_max_pages, ss_page_count, ss_clicks, ss_fb, ss_next_clicked, ss_property_selector>>

\* lines 201-389, 449-451: the listings of the page are processed; then the
\* next page is looked for, or the cap is reported and the loop is left
SsProcessPage ==
    /\ ss_pc = "loop"
    /\ ss_page_count <= ss_max_pages
    /\ ss_pc' = IF ss_page_count < ss_max_pages THEN "primary" ELSE "done"
    /\ \E found \in BOOLEAN, k \in 0..ss_n_fallback_selectors :
        ss_property_selector' = ss_SelectorAfterWait(ss_property_selector, found, k)
    /\ UNCHANGED <<ss_max_pages, ss_page_count, ss_clicks, ss_fb, ss_next_clicked>>

\* line 206 or 233: a browser call of the loop body throws outside the
\* pagination try; the except of line 455 ends the call
SsPageError ==
    /\ ss_pc = "loop"
    /\ ss_page_count <= ss_max_pages
    /\ ss_pc' = "done"
    /\ UNCHANGED <<ss_max_pages, ss_page_count, ss_clicks, ss_fb, ss_next_clicked, ss_property_selector>>

\* lines 409-411: the configured next-page element is absent or hidden
SsPrimaryNoNext ==
    /\ ss_pc = "primary"
    /\ ss_pc' = "done"
    /\ UNCHANGED <<ss_max_pages, ss_page_count, ss_clicks, ss_fb, ss_next_clicked, ss_property_selector>>

\* lines 393-400, 412-428: the lookup, the screenshot or the click itself
\* throws: nothing was clicked, the fallback selectors are tried
SsPrimaryError ==
    /\ ss_pc = "primary"
    /\ ss_pc' = "fallback"
    /\ ss_fb' = 1
    /\ ss_next_clicked' = FALSE
    /\ UNCHANGED <<ss_max_pages, ss_page_count, ss_clicks, ss_property_selector>>

\* lines 400-408, 412-428: the click is performed and page_count += 1; then
\* the wait for the load either passes (back to the while) or throws, and
\* the except of line 412 goes on to the fallback selectors
SsPrimaryClick ==
    /\ ss_pc = "primary"
    /\ ss_clicks' = ss_clicks + 1
    /\ ss_page_count' = ss_page_count + 1
    /\ \E load_ok \in BOOLEAN :
        IF load_ok
        THEN /\ ss_pc' = "loop"
             /\ UNCHANGED <<ss_fb, ss_next_clicked, ss_property_selector>>
        ELSE /\ ss_pc' = "fallback"
             /\ ss_fb' = 1
             /\ ss_next_clicked' = FALSE
    /\ UNCHANGED <<ss_max_pages, ss_property_selector>>

\* lines 429-431, 444-445: the fallback selector matches nothing visible, or
\* its lookup or click throws
SsFallbackSkip ==
    /\ ss_pc = "fallback"
    /\ ss_fb <= ss_n_fallback_next
    /\ ss_fb' = ss_fb + 1
    /\ UNCHANGED <<ss_pc, ss_max_pages, ss_page_count, ss_clicks, ss_next_clicked, ss_property_selector>>

\* lines 431-445: the fallback selector is clicked, next_clicked = True and
\* page_count += 1; the wait for the load passes (break) or throws
\* (except: continue, the next fallback selector is tried)
SsFallbackClick ==
    /\ ss_pc = "fallback"
    /\ ss_fb <= ss_n_fallback_next
    /\ ss_clicks' = ss_clicks + 1
    /\ ss_next_clicked' = TRUE
    /\ ss_page_count' = ss_page_count + 1
    /\ \E load_ok \in BOOLEAN :
        IF load_ok
        THEN /\ ss_pc' = "loop"
             /\ UNCHANGED ss_fb
        ELSE /\ ss_fb' = ss_fb + 1
             /\ UNCHANGED ss_pc
    /\ UNCHANGED <<ss_max_pages, ss_property_selector>>

\* lines 447-448: the fallback selectors are exhausted
SsFallbackDone ==
    /\ ss_pc = "fallback"
    /\ ss_fb > ss_n_fallback_next
    /\ ss_pc' = IF ss_next_clicked THEN "loop" ELSE "done"
    /\ UNCHANGED <<ss_max_pages, ss_page_count, ss_clicks, ss_fb, ss_next_clicked, ss_property_selector>>

\* lines 457-460: the browser is closed and all_properties returned; the
\* module and its SITE_CONFIGS stay for the next call
SsReturn ==
    /\ ss_pc = "done"
    /\ ss_pc' = "idle"
    /\ UNCHANGED <<ss_max_pages, ss_page_count, ss_clicks, ss_fb,
                   ss_next_clicked, ss_property_selector>>

SsNext ==
    \/ SsStart /\ UNCHANGED ss_frame
    \/ SsLoopExit /\ UNCHANGED ss_frame
    \/ SsProcessPage /\ UNCHANGED ss_frame
    \/ SsPageError /\ UNCHANGED ss_frame
    \/ SsPrimaryNoNext /\ UNCHANGED ss_frame
    \/ SsPrimaryError /\ UNCHANGED ss_frame
    \/ SsPrimaryClick /\ UNCHANGED ss_frame
    \/ SsFallbackSkip /\ UNCHANGED ss_frame
    \/ SsFallbackClick /\ UNCHANGED ss_frame
    \/ SsFallbackDone /\ UNCHANGED ss_frame
    \/ SsReturn /\ UNCHANGED ss_frame

(***************************************************************************)
(* Text: a string is a sequence of characters, so that str.strip() is      *)
(* computed and not assumed.                                               *)
(***************************************************************************)
\* texts are drawn over these characters, up to MaxTextLen long
Chars == {" ", "a"}

MaxTextLen == 2

Texts == UNION {[1..n -> Chars] : n \in 0..MaxTextLen}

RECURSIVE LStrip(_)
LStrip(t) ==
    IF t = <<>> THEN <<>>
    ELSE IF Head(t) = " " THEN LStrip(Tail(t)) ELSE t

RECURSIVE RStrip(_)
RStrip(t) ==
    IF t = <<>> THEN <<>>
    ELSE IF t[Len(t)] = " " THEN RStrip(SubSeq(t, 1, Len(t) - 1)) ELSE t

\* str.strip()
Strip(t) == RStrip(LStrip(t))

(***************************************************************************)
(* tunisian_property_scraper.py : extract_property                         *)
(***************************************************************************)
\* the candidate lists of a field are up to MaxCandidates selectors long
MaxCandidates == 2

\* what property_item.query_selector(selector) does for one candidate:
\* returns None, returns an element with some text content, or throws
ep_NoMatch == [kind |-> "nomatch", text |-> <<>>]
ep_Throws == [kind |-> "throws", text |-> <<>>]
ep_Element(t) == [kind |-> "element", text |-> t]

ep_Outcomes == {ep_NoMatch, ep_Throws} \cup {ep_Element(t) : t \in Texts}

ep_CandidateLists == UNION {[1..n -> ep_Outcomes] : n \in 0..MaxCandidates}

\* a key that property_data does not hold
ep_Absent == [kind |-> "absent", text |-> <<>>]
ep_Value(t) == [kind |-> "value", text |-> t]

\* "for selector in site_config.get(<field>_selectors, []):" from candidate
\* i on: the first candidate whose query returns an element ends the loop
\* with that element's stripped text
RECURSIVE ep_FieldLoop(_, _)
ep_FieldLoop(cands, i) ==
    IF i > Len(cands) THEN ep_Absent
    ELSE IF cands[i].kind = "throws" THEN ep_Throws
    ELSE IF cands[i].kind = "element" THEN ep_Value(Strip(cands[i].text))
    ELSE ep_FieldLoop(cands, i + 1)

\* extract_property: the title loop, then the price loop; an exception ends
\* the extraction (line 625) and the data gathered so far is returned
ExtractProperty(item) ==
    LET title == ep_FieldLoop(item.title, 1)
        price == ep_FieldLoop(item.price, 1)
    IN  IF title.kind = "throws"
        THEN [title |-> ep_Absent, price |-> ep_Absent, raw_price |-> ep_Absent]
        ELSE IF price.kind = "throws"
        THEN [title |-> title, price |-> ep_Absent, raw_price |-> ep_Absent]
        ELSE [title |-> title, price |-> price, raw_price |-> price]

EpInit ==
    /\ ep_pc = "idle"
    /\ ep_item = [title |-> <<>>, price |-> <<>>]
    /\ ep_data = [title |-> ep_Absent, price |-> ep_Absent, raw_price |-> ep_Absent]

\* line 696: extract_property is called on one listing element
EpCall ==
    /\ ep_pc = "idle"
    /\ \E title \in ep_CandidateLists, price \in ep_CandidateLists :
        ep_item' = [title |-> title, price |-> price]
    /\ ep_pc' = "called"
    /\ UNCHANGED ep_data

\* lines 558-628
EpExtract ==
    /\ ep_pc = "called"
    /\ ep_data' = ExtractProperty(ep_item)
    /\ ep_pc' = "returned"
    /\ UNCHANGED ep_item

\* line 697: the caller appends the record; the next listing follows
EpDone ==
    /\ ep_pc = "returned"
    /\ ep_pc' = "idle"
    /\ ep_item' = [title |-> <<>>, price |-> <<>>]
    /\ ep_data' = [title |-> ep_Absent, price |-> ep_Absent, raw_price |-> ep_Absent]

EpNext ==
    \/ EpCall /\ UNCHANGED ep_frame
    \/ EpExtract /\ UNCHANGED ep_frame
    \/ EpDone /\ UNCHANGED ep_frame

(***************************************************************************)
(* real_estate_scraper.py : extract_text, extract_attribute                *)
(***************************************************************************)
\* a value of the program: None, or a string
re_None == [kind |-> "none", text |-> <<>>]
re_Str(t) == [kind |-> "str", text |-> t]

\* what the page holds for a selector: nothing, an element with its text and
\* the value of the attribute asked for (None: the element lacks it), or a
\* browser that throws on any query (closed page, invalid selector)
re_Doms ==
    {[kind |-> "nomatch", text |-> <<>>, attr |-> re_None],
     [kind |-> "throws", text |-> <<>>, attr |-> re_None]}
    \cup {[kind |-> "element", text |-> t, attr |-> a] :
              t \in Texts, a \in {re_None} \cup {re_Str(x) : x \in Texts}}

\* page.locator(selector).first.inner_text(): the locator is lazy, the read
\* times out (raises) when nothing matches
re_InnerText(dom) ==
    IF dom.kind = "element"
    THEN [exc |-> FALSE, value |-> re_Str(dom.text)]
    ELSE [exc |-> TRUE, value |-> re_None]

\* page.locator(selector).first.get_attribute(attribute)
re_GetAttribute(dom) ==
    IF dom.kind = "element"
    THEN [exc |-> FALSE, value |-> dom.attr]
    ELSE [exc |-> TRUE, value |-> re_None]

\* a try body whose exception propagates to the caller
re_NoExcept(r, ok_value) ==
    IF r.exc
    THEN [raised |-> TRUE, value |-> re_None]
    ELSE [raised |-> FALSE, value |-> ok_value]

\* lines 159-165, 169-175: try: ... return <value>  except Exception: pass
\* return ""
re_TryExceptPass(r, ok_value) ==
    IF r.exc
    THEN [raised |-> FALSE, value |-> re_Str(<<>>)]
    ELSE [raised |-> FALSE, value |-> ok_value]

\* extract_text (lines 157-165)
ExtractText(dom) ==
    LET r == re_InnerText(dom)
    IN  re_TryExceptPass(r, re_Str(Strip(r.value.text)))

\* extract_attribute (lines 167-175)
ExtractAttribute(dom) ==
    LET r == re_GetAttribute(dom)
    IN  re_TryExceptPass(r, r.value)

ReInit ==
    /\ re_pc = "idle"
    /\ re_fn = "none"
    /\ re_dom = [kind |-> "nomatch", text |-> <<>>, attr |-> re_None]
    /\ re_result = [raised |-> FALSE, value |-> re_None]

\* a caller invokes one of the two functions on some page and selector
ReCall ==
    /\ re_pc = "idle"
    /\ \E fn \in {"extract_text", "extract_attribute"}, dom \in re_Doms :
        /\ re_fn' = fn
        /\ re_dom' = dom
    /\ re_pc' = "called"
    /\ UNCHANGED re_result

ReRunText ==
    /\ re_pc = "called"
    /\ re_fn = "extract_text"
    /\ re_result' = ExtractText(re_dom)
    /\ re_pc' = "returned"
    /\ UNCHANGED <<re_fn, re_dom>>

ReRunAttribute ==
    /\ re_pc = "called"
    /\ re_fn = "extract_attribute"
    /\ re_result' = ExtractAttribute(re_dom)
    /\ re_pc' = "returned"
    /\ UNCHANGED <<re_fn, re_dom>>

\* the caller takes the value; the next call follows
ReDone ==
    /\ re_pc = "returned"
    /\ re_pc' = "idle"
    /\ re_fn' = "none"
    /\ re_dom' = [kind |-> "nomatch", text |-> <<>>, attr |-> re_None]
    /\ re_result' = [raised |-> FALSE, value |-> re_None]

ReNext ==
    \/ ReCall /\ UNCHANGED re_frame
    \/ ReRunText /\ UNCHANGED re_frame
    \/ ReRunAttribute /\ UNCHANGED re_frame
    \/ ReDone /\ UNCHANGED re_frame

(***************************************************************************)
(* tunisian_property_scraper.py : main, scrape_properties                  *)
(***************************************************************************)
\* SITE_CONFIGS (lines 49-138): per site, "max_pages" and
\* len("pagination_selectors"); site 1 is remax.com.tn
mn_site_max_pages == <<20, 500, 500, 500, 500, 500>>
mn_site_n_pagination == <<5, 4, 3, 3, 2, 6>>
mn_n_sites == Len(mn_site_max_pages)
mn_remax == 1

MnInit ==
    /\ mn_pc = "idle"
    /\ mn_site = 0
    /\ mn_returned = {}
    /\ mn_by_specialized = {}
    /\ mn_by_standard = {}

TpInit ==
    /\ tp_pc = "idle"
    /\ tp_goto_failed = FALSE
    /\ tp_domain_bound = FALSE
    /\ tp_page_count = 0
    /\ tp_sel = 0
    /\ tp_next_page_found = FALSE
    /\ tp_clicks = 0

\* lines 915-939: the browser is launched, the site loop starts
MnStart ==
    /\ mn_pc = "idle"
    /\ mn_pc' = "next_site"
    /\ mn_site' = 1
    /\ UNCHANGED <<mn_returned, mn_by_specialized, mn_by_standard, tp_vars>>

\* lines 630-665: scrape_properties is entered; its locals are fresh
TpEnter ==
    /\ tp_pc' = "goto"
    /\ tp_goto_failed' = FALSE
    /\ tp_domain_bound' = FALSE
    /\ tp_page_count' = 0
    /\ tp_sel' = 0
    /\ tp_next_page_found' = FALSE
    /\ tp_clicks' = 0

MaxRemaxListings == 1

\* the listings that the first page of remax.com.tn shows
mn_RemaxListings == 1..MaxRemaxListings

\* lines 944-951 and 335-543: the site is remax.com.tn; scrape_remax_site
\* appends the listings it extracts to all_properties as it goes (lines
\* 454-455), then returns or raises: its except of line 506 covers the page
\* loop only, while new_context (line 354), context.close() (line 513),
\* save_to_csv, save_to_json and os.makedirs (lines 518-541) are outside it.
\* On a raise scrape_properties is the fallback (lines 948-951).
MnRemaxSpecialized ==
    /\ mn_pc = "next_site"
    /\ mn_site <= mn_n_sites
    /\ mn_site = mn_remax
    /\ \E raises \in BOOLEAN, appended \in SUBSET mn_RemaxListings :
        /\ mn_by_specialized' = appended
        /\ IF raises
           THEN /\ mn_pc' = "scraping"
                /\ TpEnter
                /\ UNCHANGED mn_returned
           ELSE /\ mn_pc' = "site_done"
                /\ mn_returned' = mn_returned \cup {mn_site}
                /\ UNCHANGED tp_vars
    /\ UNCHANGED <<mn_site, mn_by_standard>>

\* lines 952-953: any other site goes to scrape_properties
MnScrapeStandard ==
    /\ mn_pc = "next_site"
    /\ mn_site <= mn_n_sites
    /\ mn_site # mn_remax
    /\ mn_pc' = "scraping"
    /\ TpEnter
    /\ UNCHANGED <<mn_site, mn_returned, mn_by_specialized, mn_by_standard>>

\* line 665: page.goto(base_url), inside the try of line 659; domain is
\* assigned only afterwards (line 669). A throw lands in the except of
\* line 735 and the finally of line 738.
TpGoto ==
    /\ tp_pc = "goto"
    /\ \E ok \in BOOLEAN :
        IF ok
        THEN /\ tp_pc' = "loop"
             /\ tp_domain_bound' = TRUE
             /\ tp_page_count' = 1
             /\ UNCHANGED tp_goto_failed
        ELSE /\ tp_pc' = "epilogue"
             /\ tp_goto_failed' = TRUE
             /\ UNCHANGED <<tp_domain_bound, tp_page_count>>
    /\ UNCHANGED <<tp_sel, tp_next_page_found, tp_clicks, mn_vars>>

\* lines 675-713: the listings of the page are extracted and saved; at the
\* cap the loop is left (line 709), else the pagination links are tried.
\* (The while condition of line 675 is never false: page_count grows by one
\* per pass and the break of line 709 comes first.)
TpProcessPage ==
    /\ tp_pc = "loop"
    /\ tp_page_count <= mn_site_max_pages[mn_site]
    /\ IF tp_page_count >= mn_site_max_pages[mn_site]
       THEN /\ tp_pc' = "epilogue"
            /\ UNCHANGED <<tp_sel, tp_next_page_found>>
       ELSE /\ tp_pc' = "paginate"
            /\ tp_sel' = 1
            /\ tp_next_page_found' = FALSE
    /\ tp_clicks' = 0
    /\ IF mn_site = mn_remax /\ tp_page_count = 1
       THEN \E appended \in SUBSET mn_RemaxListings :
                mn_by_standard' = mn_by_standard \cup appended
       ELSE UNCHANGED mn_by_standard
    /\ UNCHANGED <<tp_goto_failed, tp_domain_bound, tp_page_count, mn_pc,
                   mn_site, mn_returned, mn_by_specialized>>

\* lines 680-716: a browser call outside the inner try throws (screenshot,
\* evaluate, query_selector_all, query_selector): except of line 735
TpPageError ==
    /\ tp_pc \in {"loop", "paginate"}
    /\ tp_pc = "loop" => tp_page_count <= mn_site_max_pages[mn_site]
    /\ tp_pc = "paginate" => tp_sel <= mn_site_n_pagination[mn_site]
    /\ tp_pc' = "epilogue"
    /\ UNCHANGED <<tp_goto_failed, tp_domain_bound, tp_page_count, tp_sel,
                   tp_next_page_found, tp_clicks, mn_vars>>

\* lines 715-717, 726-727: the selector finds no link, or its click throws
TpLinkSkip ==
    /\ tp_pc = "paginate"
    /\ tp_sel <= mn_site_n_pagination[mn_site]
    /\ tp_sel' = tp_sel + 1
    /\ UNCHANGED <<tp_pc, tp_goto_failed, tp_domain_bound, tp_page_count,
                   tp_next_page_found, tp_clicks, mn_vars>>

\* lines 717-727: the link is clicked and next_page_found = True; then the
\* wait for the load passes (break) or throws (logged, the for loop goes on)
TpLinkClick ==
    /\ tp_pc = "paginate"
    /\ tp_sel <= mn_site_n_pagination[mn_site]
    /\ tp_next_page_found' = TRUE
    /\ tp_clicks' = tp_clicks + 1
    /\ \E load_ok \in BOOLEAN :
        tp_sel' = IF load_ok THEN mn_site_n_pagination[mn_site] + 1 ELSE tp_sel + 1
    /\ UNCHANGED <<tp_pc, tp_goto_failed, tp_domain_bound, tp_page_count, mn_vars>>

\* lines 729-733: after the for loop
TpAfterLinks ==
    /\ tp_pc = "paginate"
    /\ tp_sel > mn_site_n_pagination[mn_site]
    /\ IF tp_next_page_found
       THEN /\ tp_pc' = "loop"
            /\ tp_page_count' = tp_page_count + 1
       ELSE /\ tp_pc' = "epilogue"
            /\ UNCHANGED tp_page_count
    /\ UNCHANGED <<tp_goto_failed, tp_domain_bound, tp_sel, tp_next_page_found,
                   tp_clicks, mn_vars>>

\* reading a local variable that was never assigned raises
\* UnboundLocalError; the code after the finally is in no try
tp_Epilogue(domain_bound) == IF domain_bound THEN "returned" ELSE "raised"

\* lines 738-752: context.close(), then the full CSV and JSON are written
\* under a name built from domain (line 745), then return site_properties
TpEpilogue ==
    /\ tp_pc = "epilogue"
    /\ tp_pc' = tp_Epilogue(tp_domain_bound)
    /\ UNCHANGED <<tp_goto_failed, tp_domain_bound, tp_page_count, tp_sel,
                   tp_next_page_found, tp_clicks, mn_vars>>

\* lines 951, 953: scrape_properties returned its list to main; its locals
\* are gone
MnScrapeReturned ==
    /\ mn_pc = "scraping"
    /\ tp_pc = "returned"
    /\ mn_pc' = "site_done"
    /\ mn_returned' = mn_returned \cup {mn_site}
    /\ tp_pc' = "idle"
    /\ tp_goto_failed' = FALSE
    /\ tp_domain_bound' = FALSE
    /\ tp_page_count' = 0
    /\ tp_sel' = 0
    /\ tp_next_page_found' = FALSE
    /\ tp_clicks' = 0
    /\ UNCHANGED <<mn_site, mn_by_specialized, mn_by_standard>>

\* lines 938-990: an exception out of scrape_properties meets no except in
\* main, only the finally that closes the browser: main ends with it
MnScrapeRaised ==
    /\ mn_pc = "scraping"
    /\ tp_pc = "raised"
    /\ mn_pc' = "aborted"
    /\ UNCHANGED <<mn_site, mn_returned, mn_by_specialized, mn_by_standard,
                   tp_vars>>

\* lines 955-972: the combined files are saved, the loop takes the next site
MnSiteDone ==
    /\ mn_pc = "site_done"
    /\ mn_site' = mn_site + 1
    /\ mn_pc' = "next_site"
    /\ UNCHANGED <<mn_returned, mn_by_specialized, mn_by_standard, tp_vars>>

\* lines 974-990: after the last site, the Tecnocasa regions and the final save
MnFinish ==
    /\ mn_pc = "next_site"
    /\ mn_site > mn_n_sites
    /\ mn_pc' = "done"
    /\ UNCHANGED <<mn_site, mn_returned, mn_by_specialized, mn_by_standard,
                   tp_vars>>

MnNext ==
    \/ MnStart /\ UNCHANGED mn_frame
    \/ MnRemaxSpecialized /\ UNCHANGED mn_frame
    \/ MnScrapeStandard /\ UNCHANGED mn_frame
    \/ TpGoto /\ UNCHANGED mn_frame
    \/ TpProcessPage /\ UNCHANGED mn_frame
    \/ TpPageError /\ UNCHANGED mn_frame
    \/ TpLinkSkip /\ UNCHANGED mn_frame
    \/ TpLinkClick /\ UNCHANGED mn_frame
    \/ TpAfterLinks /\ UNCHANGED mn_frame
    \/ TpEpilogue /\ UNCHANGED mn_frame
    \/ MnScrapeReturned /\ UNCHANGED mn_frame
    \/ MnScrapeRaised /\ UNCHANGED mn_frame
    \/ MnSiteDone /\ UNCHANGED mn_frame
    \/ MnFinish /\ UNCHANGED mn_frame

(***************************************************************************)
(* material_scraper.py : MaterialScraper.scrape_with_requests              *)
(***************************************************************************)
\* site_config["max_pages"] is drawn from 1..MaxConfigPages
MaxConfigPages == 3

\* a page holds up to MaxProducts product elements
MaxProducts == 2

\* lines 269-272: page 1 is base_url itself, page n is base_url?p=n; a URL
\* is its page parameter, 0 when it has none
ms_Url(page) == IF page = 1 THEN [p |-> 0] ELSE [p |-> page]

\* the page a URL addresses: the site serves page 1 without the parameter
ms_PageOf(url) == IF url.p = 0 THEN 1 ELSE url.p

\* a product element: its name is non-empty, empty, or its extraction throws
ms_ProductLists == UNION {[1..n -> {"named", "unnamed", "error"}] : n \in 0..MaxProducts}

\* lines 298-345: the product loop appends one record per named product
RECURSIVE ms_Records(_, _)
ms_Records(products, url) ==
    IF products = <<>> THEN <<>>
    ELSE IF Head(products) = "named"
         THEN <<[url_source |-> url]>> \o ms_Records(Tail(products), url)
         ELSE ms_Records(Tail(products), url)

\* an exception of the page's fetch alone ending the whole method
ms_PageExceptionPropagates == "raised"

\* lines 289, 347-348: the page's fetch and parse sit in a try whose except
\* logs; the caller's loop goes on
ms_PageExceptionCaught == "next"

\* where the for loop of line 268 stands after page was handled
ms_LoopAfter(page, max_pages) == IF page + 1 <= max_pages THEN "request" ELSE "done"

MsInit ==
    /\ ms_pc = "idle"
    /\ ms_max_pages = 0
    /\ ms_page = 0
    /\ ms_requests = <<>>
    /\ ms_failed = {}
    /\ ms_materials = <<>>

\* lines 258-268: pagination is enabled; range(1, max_pages + 1) starts
MsStart ==
    /\ ms_pc = "idle"
    /\ \E max_pages \in 1..MaxConfigPages : ms_max_pages' = max_pages
    /\ ms_page' = 1
    /\ ms_pc' = "request"
    /\ UNCHANGED <<ms_requests, ms_failed, ms_materials>>

\* lines 268-278, 289-345: the page is requested, parsed, and its named
\* products are appended
MsPageScraped ==
    /\ ms_pc = "request"
    /\ ms_requests' = Append(ms_requests, ms_Url(ms_page))
    /\ \E products \in ms_ProductLists :
        ms_materials' = ms_materials \o ms_Records(products, ms_Url(ms_page))
    /\ ms_pc' = ms_LoopAfter(ms_page, ms_max_pages)
    /\ ms_page' = IF ms_page + 1 <= ms_max_pages THEN ms_page + 1 ELSE ms_page
    /\ UNCHANGED <<ms_max_pages, ms_failed>>

\* lines 290-292, 347-348: session.get, raise_for_status or the parse throws
MsPageFailed ==
    /\ ms_pc = "request"
    /\ ms_requests' = Append(ms_requests, ms_Url(ms_page))
    /\ ms_failed' = ms_failed \cup {ms_page}
    /\ IF ms_PageExceptionCaught = "next"
       THEN /\ ms_pc' = ms_LoopAfter(ms_page, ms_max_pages)
            /\ ms_page' = IF ms_page + 1 <= ms_max_pages THEN ms_page + 1 ELSE ms_page
       ELSE /\ ms_pc' = "raised"
            /\ UNCHANGED ms_page
    /\ UNCHANGED <<ms_max_pages, ms_materials>>

MsNext ==
    \/ MsStart /\ UNCHANGED ms_frame
    \/ MsPageScraped /\ UNCHANGED ms_frame
    \/ MsPageFailed /\ UNCHANGED ms_frame

(***************************************************************************)
(* multi_site_patient_scraper.py : scrape_properties                       *)
(***************************************************************************)
\* SITE_CONFIGS (lines 42-76): the sites, and len("pagination_selectors")
mp_site_names == <<"mubawab.tn", "tunisie-annonce.com", "menzili.tn">>
mp_site_n_pagination == <<4, 3, 3>>

\* the selectors next_page_selectors adds to the configured ones (lines 752-763)
mp_n_generic_next == 12

mp_max_page_load_attempts == 5

\* bounds: the largest config["max_pages"] and the most listings on a page
MaxMultiPages == 2
MaxListingsPerPage == 1

\* a field of a listing is the empty string or some text
mp_FieldTexts == {<<>>, <<"a">>}

mp_Listings ==
    [title : mp_FieldTexts, property_type : mp_FieldTexts, price : mp_FieldTexts,
     location : mp_FieldTexts, area : mp_FieldTexts]

mp_NoListing ==
    [title |-> <<>>, property_type |-> <<>>, price |-> <<>>, location |-> <<>>,
     area |-> <<>>]

mp_NoNav == [from |-> 0, to |-> 0]

\* admission by the title alone
mp_AdmitByTitle(l) == l.title # <<>>

\* line 724: if (title or property_type) and (price or location or area)
mp_Admit(l) ==
    /\ (l.title # <<>> \/ l.property_type # <<>>)
    /\ (l.price # <<>> \/ l.location # <<>> \/ l.area # <<>>)

\* lines 867-894: the URL of the next page, per site pattern.  mubawab
\* (?page=): the URL's own number plus one, or page_count + 1 when it has
\* none; tunisie-annonce (rech_page=) and menzili (/page/): page_count
mp_NewUrl(site, url, page_count) ==
    IF mp_site_names[site] = "mubawab.tn"
    THEN IF url.p # 0 THEN [p |-> url.p + 1] ELSE [p |-> page_count + 1]
    ELSE [p |-> page_count]

\* where a next-page click can leave the browser: on the same URL, on the
\* URL of the following page, or on a URL without page parameter
mp_UrlsAfterClick(url) ==
    {url, [p |-> 0], [p |-> IF url.p = 0 THEN 2 ELSE url.p + 1]}

MpInit ==
    /\ mp_pc = "idle"
    /\ mp_site = 1
    /\ mp_max_pages = 0
    /\ mp_attempt = 0
    /\ mp_page_loaded = FALSE
    /\ mp_page_count = 0
    /\ mp_url = [p |-> 0]
    /\ mp_left = 0
    /\ mp_listing = mp_NoListing
    /\ mp_appended = FALSE
    /\ mp_n_properties = 0
    /\ mp_sel = 0
    /\ mp_click_attempts = 0
    /\ mp_next_clicked = FALSE
    /\ mp_nav = mp_NoNav

\* lines 147-173: the call for one site's config
MpStart ==
    /\ mp_pc = "idle"
    /\ \E site \in 1..Len(mp_site_names), max_pages \in 1..MaxMultiPages :
        /\ mp_site' = site
        /\ mp_max_pages' = max_pages
    /\ mp_pc' = "load"
    /\ mp_attempt' = 0
    /\ mp_page_loaded' = FALSE
    /\ UNCHANGED <<mp_page_count, mp_url, mp_left, mp_listing, mp_appended,
                   mp_n_properties, mp_sel, mp_click_attempts, mp_next_clicked,
                   mp_nav>>

\* lines 174-222: one pass of "for attempt in range(max_page_load_attempts)":
\* the goto passes (page_loaded = True, break) or throws
MpLoadAttempt ==
    /\ mp_pc = "load"
    /\ mp_attempt < mp_max_page_load_attempts
    /\ mp_attempt' = mp_attempt + 1
    /\ \E ok \in BOOLEAN :
        /\ mp_page_loaded' = ok
        /\ mp_pc' = IF ok THEN "after_load" ELSE "load"
    /\ UNCHANGED <<mp_site, mp_max_pages, mp_page_count, mp_url, mp_left,
                   mp_listing, mp_appended, mp_n_properties, mp_sel,
                   mp_click_attempts, mp_next_clicked, mp_nav>>

\* line 174: range(max_page_load_attempts) is exhausted
MpLoadExhausted ==
    /\ mp_pc = "load"
    /\ mp_attempt >= mp_max_page_load_attempts
    /\ mp_pc' = "after_load"
    /\ UNCHANGED <<mp_site, mp_max_pages, mp_attempt, mp_page_loaded,
                   mp_page_count, mp_url, mp_left, mp_listing, mp_appended,
                   mp_n_properties, mp_sel, mp_click_attempts,
                   mp_next_clicked, mp_nav>>

\* the site is always processed (unguarded variant of line 224)
mp_SkipSiteNever(page_loaded) == FALSE

\* line 224: if not page_loaded
mp_SkipSite(page_loaded) == ~page_loaded

\* lines 224-227: no attempt passed: return []
MpLoadGiveUp ==
    /\ mp_pc = "after_load"
    /\ mp_SkipSite(mp_page_loaded)
    /\ mp_pc' = "done"
    /\ UNCHANGED <<mp_site, mp_max_pages, mp_attempt, mp_page_loaded,
                   mp_page_count, mp_url, mp_left, mp_listing, mp_appended,
                   mp_n_properties, mp_sel, mp_click_attempts,
                   mp_next_clicked, mp_nav>>

\* lines 229-251: the page is rendered, photographed and scrolled;
\* page_count = 1 and the page loop is entered
MpLoadProceed ==
    /\ mp_pc = "after_load"
    /\ ~mp_SkipSite(mp_page_loaded)
    /\ mp_pc' = "loop"
    /\ mp_page_count' = 1
    /\ UNCHANGED <<mp_site, mp_max_pages, mp_attempt, mp_page_loaded, mp_url,
                   mp_left, mp_listing, mp_appended, mp_n_properties, mp_sel,
                   mp_click_attempts, mp_next_clicked, mp_nav>>

\* lines 251-334: the page's listing containers are looked up; a page after
\* the first without any ends the loop (line 333)
MpProcessPage ==
    /\ mp_pc = "loop"
    /\ mp_page_count <= mp_max_pages
    /\ \E property_count \in 0..MaxListingsPerPage :
        IF property_count = 0 /\ mp_page_count # 1
        THEN /\ mp_pc' = "done"
             /\ UNCHANGED mp_left
        ELSE /\ mp_pc' = "listings"
             /\ mp_left' = property_count
    /\ mp_nav' = mp_NoNav
    /\ UNCHANGED <<mp_site, mp_max_pages, mp_attempt, mp_page_loaded,
                   mp_page_count, mp_url,
                   mp_listing, mp_appended, mp_n_properties, mp_sel,
                   mp_click_attempts, mp_next_clicked>>

\* line 251: while page_count <= max_pages is false
MpLoopExit ==
    /\ mp_pc = "loop"
    /\ ~(mp_page_count <= mp_max_pages)
    /\ mp_pc' = "done"
    /\ UNCHANGED <<mp_site, mp_max_pages, mp_attempt, mp_page_loaded,
                   mp_page_count, mp_url,
                   mp_left, mp_listing, mp_appended, mp_n_properties, mp_sel,
                   mp_click_attempts, mp_next_clicked, mp_nav>>

\* lines 256-261: the screenshot or page.content() throws: except of line 947
MpPageError ==
    /\ mp_pc = "loop"
    /\ mp_page_count <= mp_max_pages
    /\ mp_pc' = "done"
    /\ UNCHANGED <<mp_site, mp_max_pages, mp_attempt, mp_page_loaded,
                   mp_page_count, mp_url,
                   mp_left, mp_listing, mp_appended, mp_n_properties, mp_sel,
                   mp_click_attempts, mp_next_clicked, mp_nav>>

\* lines 336-732: one listing is extracted and, if admitted, appended
MpListing ==
    /\ mp_pc = "listings"
    /\ mp_left > 0
    /\ \E l \in mp_Listings :
        /\ mp_listing' = l
        /\ mp_appended' = mp_Admit(l)
        /\ mp_n_properties' = IF mp_Admit(l) THEN mp_n_properties + 1
                              ELSE mp_n_properties
    /\ mp_left' = mp_left - 1
    /\ UNCHANGED <<mp_pc, mp_site, mp_max_pages, mp_attempt, mp_page_loaded,
                   mp_page_count,
                   mp_url, mp_sel, mp_click_attempts, mp_next_clicked, mp_nav>>

\* lines 734-735: the extraction of the listing throws; it is skipped
MpListingError ==
    /\ mp_pc = "listings"
    /\ mp_left > 0
    /\ mp_listing' = mp_NoListing
    /\ mp_appended' = FALSE
    /\ mp_left' = mp_left - 1
    /\ UNCHANGED <<mp_pc, mp_site, mp_max_pages, mp_attempt, mp_page_loaded,
                   mp_page_count,
                   mp_url, mp_n_properties, mp_sel, mp_click_attempts,
                   mp_next_clicked, mp_nav>>

\* lines 737-769, 929-931: the page is saved; below the cap the next-page
\* selectors are tried, at the cap the loop is left
MpListingsDone ==
    /\ mp_pc = "listings"
    /\ mp_left = 0
    /\ mp_listing' = mp_NoListing
    /\ mp_appended' = FALSE
    /\ IF mp_page_count < mp_max_pages
       THEN /\ mp_pc' = "next"
            /\ mp_sel' = 1
            /\ mp_next_clicked' = FALSE
       ELSE /\ mp_pc' = "done"
            /\ UNCHANGED <<mp_sel, mp_next_clicked>>
    /\ UNCHANGED <<mp_site, mp_max_pages, mp_attempt, mp_page_loaded,
                   mp_page_count, mp_url,
                   mp_left, mp_n_properties, mp_click_attempts, mp_nav>>

mp_n_next_selectors == mp_site_n_pagination[mp_site] + mp_n_generic_next

\* lines 770-778, 855-858: the selector matches nothing, is hidden or throws
MpSelectorSkip ==
    /\ mp_pc = "next"
    /\ mp_sel <= mp_n_next_selectors
    /\ mp_sel' = mp_sel + 1
    /\ UNCHANGED <<mp_pc, mp_site, mp_max_pages, mp_attempt, mp_page_loaded,
                   mp_page_count,
                   mp_url, mp_left, mp_listing, mp_appended, mp_n_properties,
                   mp_click_attempts, mp_next_clicked, mp_nav>>

\* lines 778-788: the selector's button is visible
MpSelectorVisible ==
    /\ mp_pc = "next"
    /\ mp_sel <= mp_n_next_selectors
    /\ mp_pc' = "click"
    /\ mp_click_attempts' = 0
    /\ UNCHANGED <<mp_site, mp_max_pages, mp_attempt, mp_page_loaded,
                   mp_page_count, mp_url,
                   mp_left, mp_listing, mp_appended, mp_n_properties, mp_sel,
                   mp_next_clicked, mp_nav>>

\* lines 790-815: one pass of "while click_attempts < 3 and not clicked"
MpClickAttempt ==
    /\ mp_pc = "click"
    /\ mp_click_attempts < 3
    /\ \E ok \in BOOLEAN :
        IF ok
        THEN /\ mp_pc' = "clicked"
             /\ mp_click_attempts' = 0
        ELSE /\ mp_click_attempts' = mp_click_attempts + 1
             /\ UNCHANGED mp_pc
    /\ UNCHANGED <<mp_site, mp_max_pages, mp_attempt, mp_page_loaded,
                   mp_page_count, mp_url,
                   mp_left, mp_listing, mp_appended, mp_n_properties, mp_sel,
                   mp_next_clicked, mp_nav>>

\* line 817: "if clicked" is false after three failed attempts
MpClickGiveUp ==
    /\ mp_pc = "click"
    /\ mp_click_attempts >= 3
    /\ mp_pc' = "next"
    /\ mp_sel' = mp_sel + 1
    /\ mp_click_attempts' = 0
    /\ UNCHANGED <<mp_site, mp_max_pages, mp_attempt, mp_page_loaded,
                   mp_page_count, mp_url,
                   mp_left, mp_listing, mp_appended, mp_n_properties,
                   mp_next_clicked, mp_nav>>

\* lines 817-854: page_count += 1 and next_clicked = True whether or not the
\* URL changed; then the scrolls pass (break) or throw (line 853, the for
\* loop goes on with the next selector)
MpAfterClick ==
    /\ mp_pc = "clicked"
    /\ mp_page_count' = mp_page_count + 1
    /\ mp_next_clicked' = TRUE
    /\ \E url \in mp_UrlsAfterClick(mp_url) : mp_url' = url
    /\ \E scroll_ok \in BOOLEAN :
        IF scroll_ok
        THEN /\ mp_pc' = "loop"
             /\ UNCHANGED mp_sel
        ELSE /\ mp_pc' = "next"
             /\ mp_sel' = mp_sel + 1
    /\ UNCHANGED <<mp_site, mp_max_pages, mp_attempt, mp_page_loaded,
                   mp_left, mp_listing,
                   mp_appended, mp_n_properties, mp_click_attempts, mp_nav>>

\* lines 859-861: the selectors are exhausted; without a click the URL-based
\* pagination is tried
MpSelectorsDone ==
    /\ mp_pc = "next"
    /\ mp_sel > mp_n_next_selectors
    /\ mp_pc' = IF mp_next_clicked THEN "loop" ELSE "url"
    /\ UNCHANGED <<mp_site, mp_max_pages, mp_attempt, mp_page_loaded,
                   mp_page_count, mp_url,
                   mp_left, mp_listing, mp_appended, mp_n_properties, mp_sel,
                   mp_click_attempts, mp_next_clicked, mp_nav>>

\* lines 861-928: the next page's URL is built and, if it differs from the
\* current one, navigated to (line 899); page_count += 1 once the page is
\* loaded, photographed and scrolled.  A goto that throws, a later step that
\* throws (line 923) or an unchanged URL ends the pagination (line 928).
MpUrlPagination ==
    /\ mp_pc = "url"
    /\ LET new_url == mp_NewUrl(mp_site, mp_url, mp_page_count)
       IN  IF new_url # mp_url
           THEN \E outcome \in {"loaded", "goto_throws", "later_throws"} :
                   /\ IF outcome = "goto_throws"
                      THEN UNCHANGED <<mp_url, mp_nav>>
                      ELSE /\ mp_url' = new_url
                           /\ mp_nav' = [from |-> mp_page_count, to |-> new_url.p]
                   /\ IF outcome = "loaded"
                      THEN /\ mp_page_count' = mp_page_count + 1
                           /\ mp_pc' = "loop"
                      ELSE /\ mp_pc' = "done"
                           /\ UNCHANGED mp_page_count
           ELSE /\ mp_pc' = "done"
                /\ UNCHANGED <<mp_url, mp_nav, mp_page_count>>
    /\ UNCHANGED <<mp_site, mp_max_pages, mp_attempt, mp_page_loaded,
                   mp_left, mp_listing,
                   mp_appended, mp_n_properties, mp_sel, mp_click_attempts,
                   mp_next_clicked>>

MpNext ==
    \/ MpStart /\ UNCHANGED mp_frame
    \/ MpLoadAttempt /\ UNCHANGED mp_frame
    \/ MpLoadExhausted /\ UNCHANGED mp_frame
    \/ MpLoadGiveUp /\ UNCHANGED mp_frame
    \/ MpLoadProceed /\ UNCHANGED mp_frame
    \/ MpProcessPage /\ UNCHANGED mp_frame
    \/ MpLoopExit /\ UNCHANGED mp_frame
    \/ MpPageError /\ UNCHANGED mp_frame
    \/ MpListing /\ UNCHANGED mp_frame
    \/ MpListingError /\ UNCHANGED mp_frame
    \/ MpListingsDone /\ UNCHANGED mp_frame
    \/ MpSelectorSkip /\ UNCHANGED mp_frame
    \/ MpSelectorVisible /\ UNCHANGED mp_frame
    \/ MpClickAttempt /\ UNCHANGED mp_frame
    \/ MpClickGiveUp /\ UNCHANGED mp_frame
    \/ MpAfterClick /\ UNCHANGED mp_frame
    \/ MpSelectorsDone /\ UNCHANGED mp_frame
    \/ MpUrlPagination /\ UNCHANGED mp_frame

(***************************************************************************)
(* simple_material_scraper.py : SimpleMaterialScraper                      *)
(***************************************************************************)
\* price texts are drawn over a digit that is zero, one that is not, and a
\* character that is no digit, up to MaxPriceLen long
sm_PriceChars == {"0", "5", "x"}

MaxPriceLen == 2

sm_PriceTexts == UNION {[1..n -> sm_PriceChars] : n \in 0..MaxPriceLen}

\* bounds: search pages of a site, records self.materials can hold
MaxSearchPages == 3
MaxMaterials == 1

sm_IsDigit(c) == c \in {"0", "5"}

sm_DigitValue(c) == IF c = "5" THEN 5 ELSE 0

\* re.search: the text from its first digit on
RECURSIVE sm_FromFirstDigit(_)
sm_FromFirstDigit(t) ==
    IF t = <<>> THEN <<>>
    ELSE IF sm_IsDigit(Head(t)) THEN t ELSE sm_FromFirstDigit(Tail(t))

\* \d+ : the value of the longest run of digits t begins with, after acc
RECURSIVE sm_RunValue(_, _)
sm_RunValue(t, acc) ==
    IF t = <<>> \/ ~sm_IsDigit(Head(t)) THEN acc
    ELSE sm_RunValue(Tail(t), 10 * acc + sm_DigitValue(Head(t)))

sm_NoPrice == [found |-> FALSE, value |-> 0]

\* lines 93-116: clean_price; on texts without currency word or separator
\* the pattern of line 106 is the one that matches, at the first digit run
sm_CleanPrice(price_text) ==
    IF price_text = <<>> THEN sm_NoPrice
    ELSE IF sm_FromFirstDigit(price_text) = <<>> THEN sm_NoPrice
    ELSE [found |-> TRUE, value |-> sm_RunValue(sm_FromFirstDigit(price_text), 0)]

\* line 163: the name used when the product has no name element
sm_NameNotFound == <<"Nom non trouve">>

sm_Absent == <<"absent">>

\* line 163: name_elem.get_text(strip=True) if name_elem else "Nom non trouvé"
sm_Name(name_elem) == IF name_elem = sm_Absent THEN sm_NameNotFound ELSE Strip(name_elem)

\* line 167: price_elem.get_text(strip=True) if price_elem else ""
sm_PriceText(price_elem) == IF price_elem = sm_Absent THEN <<>> ELSE price_elem

\* line 171: if price_value and name != "Nom non trouvé"
sm_Keep(price, name) ==
    /\ price.found /\ price.value # 0
    /\ name # sm_NameNotFound

SmInit ==
    /\ sm_pc = "idle"
    /\ sm_pages_left = 0
    /\ sm_products_left = 0
    /\ sm_materials = <<>>

\* lines 140-144: the call, for a site with some search pages
SmStart ==
    /\ sm_pc = "idle"
    /\ \E n \in 1..MaxSearchPages : sm_pages_left' = n
    /\ sm_pc' = "page"
    /\ UNCHANGED <<sm_products_left, sm_materials>>

\* lines 144-157: a search page is fetched and its products selected
SmPageFetched ==
    /\ sm_pc = "page"
    /\ sm_pages_left > 0
    /\ sm_pages_left' = sm_pages_left - 1
    /\ \E n \in 0..MaxProducts : sm_products_left' = n
    /\ sm_pc' = "products"
    /\ UNCHANGED sm_materials

\* lines 151-154, 190-192: the request or the parse throws; next page
SmPageFailed ==
    /\ sm_pc = "page"
    /\ sm_pages_left > 0
    /\ sm_pages_left' = sm_pages_left - 1
    /\ UNCHANGED <<sm_pc, sm_products_left, sm_materials>>

\* lines 159-184: one product: name, price, and the record if both pass
SmProduct ==
    /\ sm_pc = "products"
    /\ sm_products_left > 0
    /\ Len(sm_materials) < MaxMaterials
    /\ \E name_elem \in Texts \cup {sm_Absent},
          price_elem \in sm_PriceTexts \cup {sm_Absent} :
        LET name == sm_Name(name_elem)
            price == sm_CleanPrice(sm_PriceText(price_elem))
        IN  sm_materials' =
                IF sm_Keep(price, name)
                THEN Append(sm_materials, [nom |-> name, prix |-> price.value])
                ELSE sm_materials
    /\ sm_products_left' = sm_products_left - 1
    /\ UNCHANGED <<sm_pc, sm_pages_left>>

\* lines 186-188: the extraction of the product throws; next product
SmProductError ==
    /\ sm_pc = "products"
    /\ sm_products_left > 0
    /\ sm_products_left' = sm_products_left - 1
    /\ UNCHANGED <<sm_pc, sm_pages_left, sm_materials>>

\* line 159: the products of the page are exhausted
SmProductsDone ==
    /\ sm_pc = "products"
    /\ sm_products_left = 0
    /\ sm_pc' = "page"
    /\ UNCHANGED <<sm_pages_left, sm_products_left, sm_materials>>

\* line 144: the search pages are exhausted; the method returns
SmReturn ==
    /\ sm_pc = "page"
    /\ sm_pages_left = 0
    /\ sm_pc' = "idle"
    /\ UNCHANGED <<sm_pages_left, sm_products_left, sm_materials>>

SmNext ==
    \/ SmStart /\ UNCHANGED sm_frame
    \/ SmPageFetched /\ UNCHANGED sm_frame
    \/ SmPageFailed /\ UNCHANGED sm_frame
    \/ SmProduct /\ UNCHANGED sm_frame
    \/ SmProductError /\ UNCHANGED sm_frame
    \/ SmProductsDone /\ UNCHANGED sm_frame
    \/ SmReturn /\ UNCHANGED sm_frame

(***************************************************************************)
(* price_comparator.py : MaterialPriceComparator.compare_prices            *)
(***************************************************************************)
\* bounds: groups in similar_groups, members of a group, largest price
MaxGroups == 2
MaxMembers == 3
MaxPrice == 2

\* a price read from the table: a number, or NaN where the cell is empty
cp_NaN == [nan |-> TRUE, v |-> 0]

cp_Num(n) == [nan |-> FALSE, v |-> n]

cp_Prices == {cp_NaN} \cup {cp_Num(n) : n \in 0..MaxPrice}

cp_Sites == {"site_a", "site_b"}

\* lines 104-111: group_data, one {'prix', 'site'} entry per member
cp_Groups == UNION {[1..n -> [prix : cp_Prices, site : cp_Sites]] : n \in 1..MaxMembers}

\* a < b and a > b on floats: false when either side is NaN
cp_Lt(a, b) == ~a.nan /\ ~b.nan /\ a.v < b.v

cp_Gt(a, b) == ~a.nan /\ ~b.nan /\ a.v > b.v

\* a - b on floats
cp_Sub(a, b) == IF a.nan \/ b.nan THEN cp_NaN ELSE cp_Num(a.v - b.v)

\* min(): the first element is kept until a later one compares below it
RECURSIVE cp_MinIndex(_, _, _)
cp_MinIndex(g, i, best) ==
    IF i > Len(g) THEN best
    ELSE IF cp_Lt(g[i].prix, g[best].prix) THEN cp_MinIndex(g, i + 1, i)
         ELSE cp_MinIndex(g, i + 1, best)

\* max(): the first element is kept until a later one compares above it
RECURSIVE cp_MaxIndex(_, _, _)
cp_MaxIndex(g, i, best) ==
    IF i > Len(g) THEN best
    ELSE IF cp_Gt(g[i].prix, g[best].prix) THEN cp_MaxIndex(g, i + 1, i)
         ELSE cp_MaxIndex(g, i + 1, best)

RECURSIVE cp_Sum(_)
cp_Sum(g) ==
    IF g = <<>> THEN cp_Num(0)
    ELSE IF Head(g).prix.nan \/ cp_Sum(Tail(g)).nan THEN cp_NaN
         ELSE cp_Num(Head(g).prix.v + cp_Sum(Tail(g)).v)

\* a quotient num / den of floats, kept exact; NaN when a side is NaN
cp_Ratio(num, den) ==
    IF num.nan \/ den.nan THEN [nan |-> TRUE, num |-> 0, den |-> 1]
    ELSE [nan |-> FALSE, num |-> num.v, den |-> den.v]

\* a * 100 on floats
cp_Times100(a) == IF a.nan THEN cp_NaN ELSE cp_Num(a.v * 100)

\* the percentage computed without looking at max_price
cp_SavingsPctUnguarded(savings, max_price) ==
    cp_Ratio(cp_Times100(savings), max_price)

\* line 125: (savings / max_price) * 100 if max_price > 0 else 0
cp_SavingsPct(savings, max_price) ==
    IF cp_Gt(max_price, cp_Num(0))
    THEN cp_Ratio(cp_Times100(savings), max_price)
    ELSE cp_Ratio(cp_Num(0), cp_Num(1))

\* lines 113-140: the comparison of one group
cp_Comparison(g) ==
    LET min_price == g[cp_MinIndex(g, 2, 1)].prix
        max_price == g[cp_MaxIndex(g, 2, 1)].prix
        best_deal == g[cp_MinIndex(g, 2, 1)]
        worst_deal == g[cp_MaxIndex(g, 2, 1)]
        savings == cp_Sub(max_price, min_price)
    IN  [nb_fournisseurs |-> Len(g),
         prix_min |-> min_price,
         prix_max |-> max_price,
         prix_moyen |-> cp_Ratio(cp_Sum(g), cp_Num(Len(g))),
         meilleur_fournisseur |-> best_deal.site,
         meilleur_prix |-> best_deal.prix,
         pire_fournisseur |-> worst_deal.site,
         pire_prix |-> worst_deal.prix,
         economie_possible |-> savings,
         economie_pourcentage |-> cp_SavingsPct(savings, max_price)]

cp_NoGroup == <<>>

cp_NoRow == cp_Comparison(<<[prix |-> cp_Num(0), site |-> "site_a"]>>)

CpInit ==
    /\ cp_pc = "idle"
    /\ cp_groups_left = 0
    /\ cp_group = cp_NoGroup
    /\ cp_row = cp_NoRow
    /\ cp_n_comparisons = 0

\* lines 95-97: the call; comparisons = []
CpStart ==
    /\ cp_pc = "idle"
    /\ \E n \in 0..MaxGroups : cp_groups_left' = n
    /\ cp_pc' = "groups"
    /\ cp_group' = cp_NoGroup
    /\ cp_row' = cp_NoRow
    /\ cp_n_comparisons' = 0

\* lines 99-142: one group of similar_groups: skipped when it has fewer than
\* two members, compared and appended otherwise
CpGroup ==
    /\ cp_pc = "groups"
    /\ cp_groups_left > 0
    /\ cp_groups_left' = cp_groups_left - 1
    /\ \E g \in cp_Groups :
        IF Len(g) < 2
        THEN UNCHANGED <<cp_pc, cp_group, cp_row, cp_n_comparisons>>
        ELSE /\ cp_group' = g
             /\ cp_row' = cp_Comparison(g)
             /\ cp_n_comparisons' = cp_n_comparisons + 1
             /\ cp_pc' = "appended"

\* line 99: the for loop takes up the next group; group_data and comparison
\* are rebuilt from scratch for it (lines 104, 127)
CpLoop ==
    /\ cp_pc = "appended"
    /\ cp_pc' = "groups"
    /\ cp_group' = cp_NoGroup
    /\ cp_row' = cp_NoRow
    /\ UNCHANGED <<cp_groups_left, cp_n_comparisons>>

\* lines 144-146: self.comparison_results = comparisons; return
CpReturn ==
    /\ cp_pc = "groups"
    /\ cp_groups_left = 0
    /\ cp_pc' = "idle"
    /\ UNCHANGED <<cp_groups_left, cp_group, cp_row, cp_n_comparisons>>

CpNext ==
    \/ CpStart /\ UNCHANGED cp_frame
    \/ CpGroup /\ UNCHANGED cp_frame
    \/ CpLoop /\ UNCHANGED cp_frame
    \/ CpReturn /\ UNCHANGED cp_frame

(***************************************************************************)
(* price_comparator.py : find_similar_products, and main                   *)
(***************************************************************************)
\* bound: the rows of the table
MaxRows == 3

\* the normalized names a listing can carry
fs_Names == {<<>>, <<"a", "a", "b">>, <<"a", "b", "b">>, <<"b", "b", "b">>}

\* the tables: row i is the listing of supplier i
fs_Tables ==
    UNION {[1..n -> [nom_normalise : fs_Names, prix : cp_Prices]] : n \in 1..MaxRows}

\* the length of the run of equal characters from a[i] and b[j] on
RECURSIVE fs_RunLen(_, _, _, _, _, _)
fs_RunLen(a, b, i, j, ahi, bhi) ==
    IF i > ahi \/ j > bhi THEN 0
    ELSE IF a[i] # b[j] THEN 0
    ELSE 1 + fs_RunLen(a, b, i + 1, j + 1, ahi, bhi)

\* SequenceMatcher.find_longest_match: of the longest matching blocks of
\* a[alo..ahi] and b[blo..bhi] the one starting earliest in a, then in b
fs_LongestMatch(a, b, alo, ahi, blo, bhi) ==
    LET S == {<<i, j, fs_RunLen(a, b, i, j, ahi, bhi)>> : i \in alo..ahi, j \in blo..bhi}
    IN  CHOOSE m \in S : \A o \in S :
            \/ m[3] > o[3]
            \/ m[3] = o[3] /\ m[1] < o[1]
            \/ m[3] = o[3] /\ m[1] = o[1] /\ m[2] <= o[2]

\* SequenceMatcher.get_matching_blocks: the characters matched, the longest
\* block first and then the pieces left and right of it
RECURSIVE fs_Matches(_, _, _, _, _, _)
fs_Matches(a, b, alo, ahi, blo, bhi) ==
    IF alo > ahi \/ blo > bhi THEN 0
    ELSE LET m == fs_LongestMatch(a, b, alo, ahi, blo, bhi)
         IN  IF m[3] = 0 THEN 0
             ELSE m[3] + fs_Matches(a, b, alo, m[1] - 1, blo, m[2] - 1)
                       + fs_Matches(a, b, m[1] + m[3], ahi, m[2] + m[3], bhi)

\* any two names counting as similar
fs_AnySimilar(a, b) == TRUE

\* lines 80-86: SequenceMatcher(None, a, b).ratio() >= 0.6, the ratio being
\* 2 * matches / (len(a) + len(b)), and 1.0 for two empty names
fs_Similar(a, b) ==
    IF Len(a) + Len(b) = 0 THEN TRUE
    ELSE 10 * 2 * fs_Matches(a, b, 1, Len(a), 1, Len(b)) >= 6 * (Len(a) + Len(b))

\* lines 76-88: the rows not processed yet that are similar to row idx
RECURSIVE fs_Inner(_, _, _, _, _)
fs_Inner(data, idx, idx2, processed, similar_products) ==
    IF idx2 > Len(data) THEN [processed |-> processed, similar_products |-> similar_products]
    ELSE IF idx2 \in processed \/ idx = idx2
         THEN fs_Inner(data, idx, idx2 + 1, processed, similar_products)
    ELSE IF fs_Similar(data[idx].nom_normalise, data[idx2].nom_normalise)
         THEN fs_Inner(data, idx, idx2 + 1, processed \cup {idx2},
                       Append(similar_products, idx2))
    ELSE fs_Inner(data, idx, idx2 + 1, processed, similar_products)

\* lines 68-91: every row not processed yet seeds a group; groups of more
\* than one row are kept
RECURSIVE fs_Outer(_, _, _, _)
fs_Outer(data, idx, processed, similar_groups) ==
    IF idx > Len(data) THEN similar_groups
    ELSE IF idx \in processed THEN fs_Outer(data, idx + 1, processed, similar_groups)
    ELSE LET r == fs_Inner(data, idx, 1, processed \cup {idx}, <<idx>>)
         IN  fs_Outer(data, idx + 1, r.processed,
                      IF Len(r.similar_products) > 1
                      THEN Append(similar_groups, r.similar_products)
                      ELSE similar_groups)

\* lines 63-94
fs_FindSimilarProducts(data) == fs_Outer(data, 1, {}, <<>>)

\* lines 104-111: group_data of a group
fs_GroupData(data, group) ==
    [k \in 1..Len(group) |-> [prix |-> data[group[k]].prix, site |-> group[k]]]

\* lines 99-142: the comparisons of the groups of two members or more
RECURSIVE fs_ComparePrices(_, _)
fs_ComparePrices(data, similar_groups) ==
    IF similar_groups = <<>> THEN <<>>
    ELSE IF Len(Head(similar_groups)) < 2
         THEN fs_ComparePrices(data, Tail(similar_groups))
    ELSE <<[row |-> cp_Comparison(fs_GroupData(data, Head(similar_groups))),
            details |-> fs_GroupData(data, Head(similar_groups))]>>
         \o fs_ComparePrices(data, Tail(similar_groups))

FsInit ==
    /\ fs_pc = "idle"
    /\ fs_data = <<>>
    /\ fs_similar_groups = <<>>
    /\ fs_comparisons = <<>>

\* lines 243-250: the table is loaded and its names normalized
FsLoad ==
    /\ fs_pc = "idle"
    /\ \E data \in fs_Tables : fs_data' = data
    /\ fs_pc' = "loaded"
    /\ fs_similar_groups' = <<>>
    /\ fs_comparisons' = <<>>

\* line 253: similar_groups = comparator.find_similar_products()
FsFindSimilar ==
    /\ fs_pc = "loaded"
    /\ fs_similar_groups' = fs_FindSimilarProducts(fs_data)
    /\ fs_pc' = "grouped"
    /\ UNCHANGED <<fs_data, fs_comparisons>>

\* line 256: comparisons = comparator.compare_prices(similar_groups)
FsCompare ==
    /\ fs_pc = "grouped"
    /\ fs_comparisons' = fs_ComparePrices(fs_data, fs_similar_groups)
    /\ fs_pc' = "compared"
    /\ UNCHANGED <<fs_data, fs_similar_groups>>

\* lines 259-263: the reports are written; main returns
FsReturn ==
    /\ fs_pc = "compared"
    /\ fs_pc' = "idle"
    /\ fs_data' = <<>>
    /\ fs_similar_groups' = <<>>
    /\ fs_comparisons' = <<>>

FsNext ==
    \/ FsLoad /\ UNCHANGED fs_frame
    \/ FsFindSimilar /\ UNCHANGED fs_frame
    \/ FsCompare /\ UNCHANGED fs_frame
    \/ FsReturn /\ UNCHANGED fs_frame

(***************************************************************************)
(* material_scraper.py, brico_direct_scraper.py : clean_price              *)
(***************************************************************************)
\* the price texts: a leading number, then optionally a group of three
\* digits, a decimal part, a blank and a currency word; and two texts
\* without a number
pp_Leads == {<<"1">>, <<"9", "9">>, <<"1", "2">>}

pp_GroupParts == {<<>>, <<" ", "2", "3", "4">>, <<",", "2", "3", "4">>, <<".", "2", "3", "4">>}

pp_DecimalParts == {<<>>, <<",", "5", "0">>, <<".", "5", "0">>, <<",", "5">>}

pp_Gaps == {<<>>, <<" ">>}

pp_Suffixes == {<<>>, <<"D", "T">>, <<"d", "t">>}

pp_PriceTexts ==
    {l \o g \o d \o b \o c : l \in pp_Leads, g \in pp_GroupParts,
        d \in pp_DecimalParts, b \in pp_Gaps, c \in pp_Suffixes}
    \cup {<<"a", "b", "c">>, <<>>}

pp_DigitChars == <<"0", "1", "2", "3", "4", "5", "6", "7", "8", "9">>

\* \d
pp_IsDigit(c) == \E i \in 1..Len(pp_DigitChars) : pp_DigitChars[i] = c

pp_DigitValue(c) == (CHOOSE i \in 1..Len(pp_DigitChars) : pp_DigitChars[i] = c) - 1

\* re.IGNORECASE on the letters of the currency words
pp_Lower(c) ==
    IF c = "D" THEN "d" ELSE IF c = "T" THEN "t" ELSE IF c = "N" THEN "n" ELSE c

\* \d{n} at position i of t
pp_DigitsAt(t, i, n) ==
    /\ i + n - 1 <= Len(t)
    /\ \A k \in i..(i + n - 1) : pp_IsDigit(t[k])

\* the ways \d+(?:[seps]\d{3})*(?:[.,]\d{1,2})? matches t from position s:
\* digits of the leading run, groups of three, digits of the decimal part
pp_NumberShapes(t, s, seps) ==
    {sh \in (1..Len(t)) \X (0..Len(t)) \X (0..2) :
        LET e0 == s + sh[1] + 4 * sh[2]
        IN  /\ pp_DigitsAt(t, s, sh[1])
            /\ e0 <= Len(t) + 1
            /\ \A g \in 0..(sh[2] - 1) :
                   /\ t[s + sh[1] + 4 * g] \in seps
                   /\ pp_DigitsAt(t, s + sh[1] + 4 * g + 1, 3)
            /\ sh[3] > 0 => /\ e0 <= Len(t)
                            /\ t[e0] \in {".", ","}
                            /\ pp_DigitsAt(t, e0 + 1, sh[3])}

\* the position after a number of shape sh that starts at s
pp_EndOf(s, sh) == s + sh[1] + 4 * sh[2] + (IF sh[3] > 0 THEN 1 + sh[3] ELSE 0)

\* \s* : the first position from p on that holds no blank
RECURSIVE pp_SkipBlanks(_, _)
pp_SkipBlanks(t, p) ==
    IF p <= Len(t) /\ t[p] = " " THEN pp_SkipBlanks(t, p + 1) ELSE p

\* the word w stands at position p of t, whatever the case
pp_WordAt(t, p, w) ==
    /\ p + Len(w) - 1 <= Len(t)
    /\ \A k \in 1..Len(w) : pp_Lower(t[p + k - 1]) = w[k]

\* \s*(?:word|word|...) at position p; a pattern without currency part has
\* no words and matches anywhere
pp_CurrencyAt(t, p, words) ==
    words = {} \/ \E w \in words : pp_WordAt(t, pp_SkipBlanks(t, p), w)

\* the order in which the regex engine tries the shapes: the longer leading
\* run first, then the more groups, then the longer decimal part
pp_TriedBefore(x, y) ==
    \/ x[1] > y[1]
    \/ x[1] = y[1] /\ x[2] > y[2]
    \/ x[1] = y[1] /\ x[2] = y[2] /\ x[3] >= y[3]

\* the shapes at s after which the currency part matches
pp_MatchesAt(t, s, seps, words) ==
    {sh \in pp_NumberShapes(t, s, seps) : pp_CurrencyAt(t, pp_EndOf(s, sh), words)}

pp_NoMatch == [found |-> FALSE, str |-> <<>>]

\* re.search(pattern, price_text).group(1): the leftmost match, and at its
\* start the first shape tried that matches
pp_Search(t, seps, words) ==
    LET starts == {s \in 1..Len(t) : pp_MatchesAt(t, s, seps, words) # {}}
    IN  IF starts = {} THEN pp_NoMatch
        ELSE LET s == CHOOSE x \in starts : \A y \in starts : x <= y
                 M == pp_MatchesAt(t, s, seps, words)
                 sh == CHOOSE x \in M : \A y \in M : pp_TriedBefore(x, y)
             IN  [found |-> TRUE, str |-> SubSeq(t, s, pp_EndOf(s, sh) - 1)]

\* str.replace(c, '') for the characters of cs
RECURSIVE pp_Remove(_, _)
pp_Remove(str, cs) ==
    IF str = <<>> THEN <<>>
    ELSE IF Head(str) \in cs THEN pp_Remove(Tail(str), cs)
    ELSE <<Head(str)>> \o pp_Remove(Tail(str), cs)

\* str.replace(',', '.')
pp_CommaToDot(str) == [k \in 1..Len(str) |-> IF str[k] = "," THEN "." ELSE str[k]]

pp_Count(str, c) == Cardinality({k \in 1..Len(str) : str[k] = c})

\* len(parts[1]) of str.split(','), for a str with one comma
pp_AfterComma(str) == Len(str) - (CHOOSE k \in 1..Len(str) : str[k] = ",")

\* the integer the digits of str write, after acc
RECURSIVE pp_IntOf(_, _)
pp_IntOf(str, acc) ==
    IF str = <<>> THEN acc
    ELSE pp_IntOf(Tail(str), 10 * acc + pp_DigitValue(Head(str)))

pp_None == [found |-> FALSE, num |-> 0, scale |-> 0]

\* float(str) for a str of digits and points: num / 10^scale, or ValueError
\* (no value) when str holds two points or more
pp_Float(str) ==
    IF pp_Count(str, ".") > 1 THEN pp_None
    ELSE [found |-> TRUE,
          num |-> pp_IntOf(pp_Remove(str, {"."}), 0),
          scale |-> IF pp_Count(str, ".") = 0 THEN 0
                    ELSE Len(str) - (CHOOSE k \in 1..Len(str) : str[k] = ".")]

\* material_scraper.py lines 143-148: the currency words of the patterns
pp_MaterialPatterns == <<{<<"t", "n", "d">>, <<"d", "t">>, <<"d", "i", "n", "a", "r">>},
                         {<<"e", "u", "r">>}, {<<"u", "s", "d">>}, {}>>

\* material_scraper.py lines 155-166: the comma is a decimal point when it is
\* the only one and one or two characters follow it, a thousands separator
\* otherwise
pp_MaterialNormalise(str) ==
    IF pp_Count(str, ",") > 0 /\ pp_Count(str, ".") > 0 THEN pp_Remove(str, {","})
    ELSE IF pp_Count(str, ",") > 0
         THEN IF pp_Count(str, ",") = 1 /\ pp_AfterComma(str) <= 2
              THEN pp_CommaToDot(str)
              ELSE pp_Remove(str, {","})
    ELSE str

\* material_scraper.py lines 150-173: the patterns in turn, from pattern i
RECURSIVE pp_MaterialFrom(_, _)
pp_MaterialFrom(t, i) ==
    IF i > Len(pp_MaterialPatterns) THEN pp_None
    ELSE LET m == pp_Search(t, {".", ","}, pp_MaterialPatterns[i])
         IN  IF m.found /\ pp_Float(pp_MaterialNormalise(m.str)).found
             THEN pp_Float(pp_MaterialNormalise(m.str))
             ELSE pp_MaterialFrom(t, i + 1)

\* material_scraper.py lines 135-173: MaterialScraper.clean_price
pp_MaterialCleanPrice(price_text) ==
    IF price_text = <<>> THEN pp_None ELSE pp_MaterialFrom(price_text, 1)

\* brico_direct_scraper.py lines 84-87: the currency words of the patterns
pp_BricoPatterns == <<{<<"d", "t">>, <<"t", "n", "d">>, <<"d", "i", "n", "a", "r">>}, {}>>

\* brico_direct_scraper.py lines 94-95: commas and blanks are removed; the
\* replacement of commas by points then finds none
pp_BricoNormalise(str) == pp_CommaToDot(pp_Remove(str, {",", " "}))

\* brico_direct_scraper.py lines 89-102: the patterns in turn, from pattern i
RECURSIVE pp_BricoFrom(_, _)
pp_BricoFrom(t, i) ==
    IF i > Len(pp_BricoPatterns) THEN pp_None
    ELSE LET m == pp_Search(t, {",", ".", " "}, pp_BricoPatterns[i])
         IN  IF m.found /\ pp_Float(pp_BricoNormalise(m.str)).found
             THEN pp_Float(pp_BricoNormalise(m.str))
             ELSE pp_BricoFrom(t, i + 1)

\* brico_direct_scraper.py lines 76-102: BricoDirectScraper.clean_price
pp_BricoCleanPrice(price_text) ==
    IF price_text = <<>> THEN pp_None ELSE pp_BricoFrom(price_text, 1)

PpInit ==
    /\ pp_pc = "idle"
    /\ pp_fn = "MaterialScraper"
    /\ pp_text = <<>>
    /\ pp_result = pp_None

\* a call of clean_price of one of the two classes
PpCall ==
    /\ pp_pc = "idle"
    /\ \E fn \in {"MaterialScraper", "BricoDirectScraper"}, t \in pp_PriceTexts :
        /\ pp_fn' = fn
        /\ pp_text' = t
    /\ pp_pc' = "called"
    /\ UNCHANGED pp_result

\* MaterialScraper.clean_price runs and returns
PpMaterial ==
    /\ pp_pc = "called"
    /\ pp_fn = "MaterialScraper"
    /\ pp_result' = pp_MaterialCleanPrice(pp_text)
    /\ pp_pc' = "returned"
    /\ UNCHANGED <<pp_fn, pp_text>>

\* BricoDirectScraper.clean_price runs and returns
PpBrico ==
    /\ pp_pc = "called"
    /\ pp_fn = "BricoDirectScraper"
    /\ pp_result' = pp_BricoCleanPrice(pp_text)
    /\ pp_pc' = "returned"
    /\ UNCHANGED <<pp_fn, pp_text>>

\* the caller takes the value
PpDone ==
    /\ pp_pc = "returned"
    /\ pp_pc' = "idle"
    /\ pp_fn' = "MaterialScraper"
    /\ pp_text' = <<>>
    /\ pp_result' = pp_None

PpNext ==
    \/ PpCall /\ UNCHANGED pp_frame
    \/ PpMaterial /\ UNCHANGED pp_frame
    \/ PpBrico /\ UNCHANGED pp_frame
    \/ PpDone /\ UNCHANGED pp_frame

(***************************************************************************)
(* material_scraper.py : MaterialScraper.categorize_material               *)
(***************************************************************************)
\* bound: the words of a name
MaxNameWords == 2

\* the words names and descriptions are made of: keywords of several
\* categories, a word holding a keyword of another category inside
\* ("isolation" holds "sol"), a capitalized keyword, and a word without any
cm_Words ==
    {<<"c", "i", "m", "e", "n", "t">>, <<"C", "i", "m", "e", "n", "t">>,
     <<"s", "o", "l">>, <<"i", "s", "o", "l", "a", "t", "i", "o", "n">>,
     <<"v", "i", "s">>, <<"x", "y", "z">>}

\* the words of ws joined by blanks
RECURSIVE cm_Join(_)
cm_Join(ws) ==
    IF ws = <<>> THEN <<>>
    ELSE IF Len(ws) = 1 THEN Head(ws)
    ELSE Head(ws) \o <<" ">> \o cm_Join(Tail(ws))

cm_Names == {cm_Join(ws) : ws \in UNION {[1..n -> cm_Words] : n \in 1..MaxNameWords}}

cm_Descriptions == {<<>>} \cup cm_Words

cm_UpperChars == <<"A", "B", "C", "D", "E", "F", "G", "H", "I", "J", "K", "L", "M",
                   "N", "O", "P", "Q", "R", "S", "T", "U", "V", "W", "X", "Y", "Z">>

cm_LowerChars == <<"a", "b", "c", "d", "e", "f", "g", "h", "i", "j", "k", "l", "m",
                   "n", "o", "p", "q", "r", "s", "t", "u", "v", "w", "x", "y", "z">>

\* str.lower()
cm_Lower(t) ==
    [k \in 1..Len(t) |->
        IF \E i \in 1..Len(cm_UpperChars) : cm_UpperChars[i] = t[k]
        THEN cm_LowerChars[CHOOSE i \in 1..Len(cm_UpperChars) : cm_UpperChars[i] = t[k]]
        ELSE t[k]]

\* keyword in text
cm_In(keyword, text) ==
    \E i \in 1..(Len(text) - Len(keyword) + 1) :
        SubSeq(text, i, i + Len(keyword) - 1) = keyword

\* lines 206-251: the table, in its order
cm_categories == <<
    [name |-> "Ciment et béton",
     keywords |->
         {<<"c", "i", "m", "e", "n", "t">>,
          <<"b", "é", "t", "o", "n">>,
          <<"b", "e", "t", "o", "n">>,
          <<"m", "o", "r", "t", "i", "e", "r">>,
          <<"c", "h", "a", "u", "x">>,
          <<"c", "l", "i", "n", "k", "e", "r">>,
          <<"p", "o", "r", "t", "l", "a", "n", "d">>,
          <<"h", "y", "d", "r", "a", "u", "l", "i", "q", "u", "e">>,
          <<"s", "a", "b", "l", "e">>,
          <<"g", "r", "a", "v", "i", "e", "r">>,
          <<"a", "g", "r", "e", "g", "a", "t">>}],
    [name |-> "Carrelage et revêtements",
     keywords |->
         {<<"c", "a", "r", "r", "e", "l", "a", "g", "e">>,
          <<"c", "a", "r", "r", "e", "a", "u">>,
          <<"f", "a", "i", "e", "n", "c", "e">>,
          <<"f", "a", "ï", "e", "n", "c", "e">>,
          <<"r", "e", "v", "e", "t", "e", "m", "e", "n", "t">>,
          <<"r", "e", "v", "ê", "t", "e", "m", "e", "n", "t">>,
          <<"s", "o", "l">>,
          <<"m", "u", "r">>,
          <<"c", "e", "r", "a", "m", "i", "q", "u", "e">>,
          <<"c", "é", "r", "a", "m", "i", "q", "u", "e">>,
          <<"m", "a", "r", "b", "r", "e">>}],
    [name |-> "Peinture et enduits",
     keywords |->
         {<<"p", "e", "i", "n", "t", "u", "r", "e">>,
          <<"e", "n", "d", "u", "i", "t">>,
          <<"v", "e", "r", "n", "i", "s">>,
          <<"l", "a", "q", "u", "e">>,
          <<"p", "r", "i", "m", "e", "r">>,
          <<"s", "o", "u", "s", "-", "c", "o", "u", "c", "h", "e">>,
          <<"a", "c", "r", "y", "l", "i", "q", "u", "e">>,
          <<"g", "l", "y", "c", "e", "r", "o">>,
          <<"a", "n", "t", "i", "-", "r", "o", "u", "i", "l", "l", "e">>,
          <<"p", "i", "n", "c", "e", "a", "u">>,
          <<"r", "o", "u", "l", "e", "a", "u">>}],
    [name |-> "Isolation thermique",
     keywords |->
         {<<"i", "s", "o", "l", "a", "t", "i", "o", "n">>,
          <<"i", "s", "o", "l", "a", "n", "t">>,
          <<"l", "a", "i", "n", "e">>,
          <<"p", "o", "l", "y", "s", "t", "y", "r", "e", "n", "e">>,
          <<"p", "o", "l", "y", "s", "t", "y", "r", "è", "n", "e">>,
          <<"p", "o", "l", "y", "u", "r", "e", "t", "h", "a", "n", "e">>,
          <<"p", "o", "l", "y", "u", "r", "é", "t", "h", "a", "n", "e">>,
          <<"t", "h", "e", "r", "m", "i", "q", "u", "e">>,
          <<"a", "c", "o", "u", "s", "t", "i", "q", "u", "e">>}],
    [name |-> "Plomberie",
     keywords |->
         {<<"t", "u", "y", "a", "u">>,
          <<"r", "o", "b", "i", "n", "e", "t">>,
          <<"p", "v", "c">>,
          <<"r", "a", "c", "c", "o", "r", "d">>,
          <<"p", "l", "o", "m", "b", "e", "r", "i", "e">>,
          <<"s", "a", "n", "i", "t", "a", "i", "r", "e">>,
          <<"c", "a", "n", "a", "l", "i", "s", "a", "t", "i", "o", "n">>,
          <<"s", "i", "p", "h", "o", "n">>,
          <<"j", "o", "i", "n", "t">>,
          <<"c", "o", "l", "l", "e">>}],
    [name |-> "Électricité",
     keywords |->
         {<<"c", "a", "b", "l", "e">>,
          <<"c", "â", "b", "l", "e">>,
          <<"f", "i", "l">>,
          <<"e", "l", "e", "c", "t", "r", "i", "q", "u", "e">>,
          <<"é", "l", "e", "c", "t", "r", "i", "q", "u", "e">>,
          <<"p", "r", "i", "s", "e">>,
          <<"i", "n", "t", "e", "r", "r", "u", "p", "t", "e", "u", "r">>,
          <<"d", "i", "s", "j", "o", "n", "c", "t", "e", "u", "r">>,
          <<"t", "a", "b", "l", "e", "a", "u">>,
          <<"g", "a", "i", "n", "e">>}],
    [name |-> "Menuiserie et bois",
     keywords |->
         {<<"b", "o", "i", "s">>,
          <<"p", "o", "r", "t", "e">>,
          <<"f", "e", "n", "e", "t", "r", "e">>,
          <<"f", "e", "n", "ê", "t", "r", "e">>,
          <<"m", "e", "n", "u", "i", "s", "e", "r", "i", "e">>,
          <<"p", "l", "a", "n", "c", "h", "e">>,
          <<"c", "o", "n", "t", "r", "e", "p", "l", "a", "q", "u", "e">>,
          <<"c", "o", "n", "t", "r", "e", "p", "l", "a", "q", "u", "é">>,
          <<"a", "g", "g", "l", "o", "m", "e", "r", "e">>,
          <<"a", "g", "g", "l", "o", "m", "é", "r", "é">>,
          <<"p", "i", "n">>}],
    [name |-> "Fer et métallurgie",
     keywords |->
         {<<"f", "e", "r">>,
          <<"a", "c", "i", "e", "r">>,
          <<"r", "o", "n", "d">>,
          <<"f", "e", "r", "r", "a", "i", "l", "l", "a", "g", "e">>,
          <<"t", "r", "e", "i", "l", "l", "i", "s">>,
          <<"p", "o", "u", "t", "r", "e", "l", "l", "e">>,
          <<"c", "o", "r", "n", "i", "e", "r", "e">>,
          <<"c", "o", "r", "n", "i", "è", "r", "e">>,
          <<"t", "o", "l", "e">>,
          <<"t", "ô", "l", "e">>,
          <<"g", "a", "l", "v", "a", "n", "i", "s", "e">>}],
    [name |-> "Toiture et étanchéité",
     keywords |->
         {<<"t", "u", "i", "l", "e">>,
          <<"t", "o", "i", "t", "u", "r", "e">>,
          <<"z", "i", "n", "c">>,
          <<"g", "o", "u", "t", "t", "i", "e", "r", "e">>,
          <<"g", "o", "u", "t", "t", "i", "è", "r", "e">>,
          <<"e", "t", "a", "n", "c", "h", "e", "i", "t", "e">>,
          <<"é", "t", "a", "n", "c", "h", "é", "i", "t", "é">>,
          <<"m", "e", "m", "b", "r", "a", "n", "e">>,
          <<"b", "a", "r", "d", "e", "a", "u">>,
          <<"c", "o", "u", "v", "e", "r", "t", "u", "r", "e">>}],
    [name |-> "Outillage",
     keywords |->
         {<<"o", "u", "t", "i", "l">>,
          <<"m", "a", "r", "t", "e", "a", "u">>,
          <<"p", "e", "r", "c", "e", "u", "s", "e">>,
          <<"s", "c", "i", "e">>,
          <<"t", "o", "u", "r", "n", "e", "v", "i", "s">>,
          <<"c", "l", "é">>,
          <<"n", "i", "v", "e", "a", "u">>,
          <<"m", "è", "t", "r", "e">>,
          <<"é", "q", "u", "e", "r", "r", "e">>,
          <<"p", "e", "l", "l", "e">>,
          <<"b", "r", "o", "u", "e", "t", "t", "e">>}],
    [name |-> "Quincaillerie",
     keywords |->
         {<<"v", "i", "s">>,
          <<"c", "l", "o", "u">>,
          <<"b", "o", "u", "l", "o", "n">>,
          <<"e", "c", "r", "o", "u">>,
          <<"é", "c", "r", "o", "u">>,
          <<"r", "o", "n", "d", "e", "l", "l", "e">>,
          <<"c", "h", "e", "v", "i", "l", "l", "e">>,
          <<"s", "e", "r", "r", "u", "r", "e">>,
          <<"p", "o", "i", "g", "n", "e", "e">>,
          <<"p", "o", "i", "g", "n", "é", "e">>,
          <<"p", "e", "n", "t", "u", "r", "e">>}]
>>

\* line 253: any(keyword in text for keyword in keywords)
cm_AnyKeyword(text, k) == \E keyword \in cm_categories[k].keywords : cm_In(keyword, text)

\* the loop run to its end, the last category with a keyword winning
RECURSIVE cm_LastFrom(_, _, _)
cm_LastFrom(text, k, found) ==
    IF k > Len(cm_categories) THEN found
    ELSE IF cm_AnyKeyword(text, k) THEN cm_LastFrom(text, k + 1, cm_categories[k].name)
    ELSE cm_LastFrom(text, k + 1, found)

cm_CategorizeLast(name, description) ==
    cm_LastFrom(cm_Lower(name \o <<" ">> \o description), 1, "Autres matériaux")

\* lines 252-256: the categories in turn, from category k
RECURSIVE cm_From(_, _)
cm_From(text, k) ==
    IF k > Len(cm_categories) THEN "Autres matériaux"
    ELSE IF cm_AnyKeyword(text, k) THEN cm_categories[k].name
    ELSE cm_From(text, k + 1)

\* lines 202-256: categorize_material
cm_CategorizeMaterial(name, description) ==
    cm_From(cm_Lower(name \o <<" ">> \o description), 1)

CmInit ==
    /\ cm_pc = "idle"
    /\ cm_name = <<>>
    /\ cm_description = <<>>
    /\ cm_result = ""

\* a call categorize_material(name, description)
CmCall ==
    /\ cm_pc = "idle"
    /\ \E name \in cm_Names, description \in cm_Descriptions :
        /\ cm_name' = name
        /\ cm_description' = description
    /\ cm_pc' = "called"
    /\ UNCHANGED cm_result

\* lines 202-256: the function runs and returns
CmCategorize ==
    /\ cm_pc = "called"
    /\ cm_result' = cm_CategorizeMaterial(cm_name, cm_description)
    /\ cm_pc' = "returned"
    /\ UNCHANGED <<cm_name, cm_description>>

\* the caller takes the category
CmDone ==
    /\ cm_pc = "returned"
    /\ cm_pc' = "idle"
    /\ cm_name' = <<>>
    /\ cm_description' = <<>>
    /\ cm_result' = ""

CmNext ==
    \/ CmCall /\ UNCHANGED cm_frame
    \/ CmCategorize /\ UNCHANGED cm_frame
    \/ CmDone /\ UNCHANGED cm_frame

(***************************************************************************)
(* simple_material_scraper.py : SimpleMaterialScraper.extract_unit         *)
(***************************************************************************)
\* the words the texts are made of
su_Words ==
    {<<"p", "r", "o", "d", "u", "i", "t">>,
     <<"g", "é", "n", "é", "r", "i", "q", "u", "e">>,
     <<"s", "a", "c">>, <<"k", "g">>, <<"b", "o", "i", "s">>,
     <<"c", "i", "m", "e", "n", "t">>, <<"R", "o", "u", "l", "e", "a", "u">>,
     <<"x", "y", "z">>}

su_WordLists == UNION {[1..n -> su_Words] : n \in 1..MaxNameWords}

su_Texts == {cm_Join(ws) : ws \in su_WordLists}

\* line 131: units, in the order of the list
su_units ==
    <<[unit |-> "m²", chars |-> <<"m", "²">>], [unit |-> "m2", chars |-> <<"m", "2">>],
      [unit |-> "kg", chars |-> <<"k", "g">>], [unit |-> "g", chars |-> <<"g">>],
      [unit |-> "l", chars |-> <<"l">>], [unit |-> "ml", chars |-> <<"m", "l">>],
      [unit |-> "pièce", chars |-> <<"p", "i", "è", "c", "e">>],
      [unit |-> "pc", chars |-> <<"p", "c">>], [unit |-> "sac", chars |-> <<"s", "a", "c">>],
      [unit |-> "boîte", chars |-> <<"b", "o", "î", "t", "e">>],
      [unit |-> "rouleau", chars |-> <<"r", "o", "u", "l", "e", "a", "u">>]>>

\* lines 134-138: the units in turn, from unit k; 'pièce' when none is in
\* the text
RECURSIVE su_From(_, _)
su_From(text_lower, k) ==
    IF k > Len(su_units) THEN "pièce"
    ELSE IF cm_In(cm_Lower(su_units[k].chars), text_lower) THEN su_units[k].unit
    ELSE su_From(text_lower, k + 1)

\* lines 129-138: extract_unit
su_ExtractUnit(text) == su_From(cm_Lower(text), 1)

SuInit ==
    /\ su_pc = "idle"
    /\ su_text = <<>>
    /\ su_result = ""

\* a call extract_unit(text)
SuCall ==
    /\ su_pc = "idle"
    /\ \E text \in su_Texts : su_text' = text
    /\ su_pc' = "called"
    /\ UNCHANGED su_result

\* lines 129-138: the function runs and returns
SuExtractUnit ==
    /\ su_pc = "called"
    /\ su_result' = su_ExtractUnit(su_text)
    /\ su_pc' = "returned"
    /\ UNCHANGED su_text

\* the caller takes the unit
SuDone ==
    /\ su_pc = "returned"
    /\ su_pc' = "idle"
    /\ su_text' = <<>>
    /\ su_result' = ""

SuNext ==
    \/ SuCall /\ UNCHANGED su_frame
    \/ SuExtractUnit /\ UNCHANGED su_frame
    \/ SuDone /\ UNCHANGED su_frame

(***************************************************************************)
(* remax_hash_pagination.py : handle_remax_hash_pagination                 *)
(***************************************************************************)
\* bounds: the parameters of a hash fragment, the largest page number
MaxParams == 2
MaxPageNumber == 2

\* the part of a URL before its hash
hr_Base == <<"r", "e", "m", "a", "x", ".", "t", "n", "/", "l", "i", "s", "t", ".", "a", "s", "p", "x">>

\* the parameters a hash fragment is made of: key=value
hr_Keys == {<<"p", "a", "g", "e">>, <<"p", "e", "r", "p", "a", "g", "e">>, <<"m", "o", "d", "e">>, <<"s", "i", "d">>}

hr_Values == {<<"1">>, <<"2">>}

hr_Params == {k \o <<"=">> \o v : k \in hr_Keys, v \in hr_Values}

\* the pieces of ps joined by the character c
RECURSIVE hr_JoinWith(_, _)
hr_JoinWith(ps, c) ==
    IF ps = <<>> THEN <<>>
    ELSE IF Len(ps) = 1 THEN Head(ps)
    ELSE Head(ps) \o <<c>> \o hr_JoinWith(Tail(ps), c)

hr_Hashes == {hr_JoinWith(ps, "&") : ps \in UNION {[1..n -> hr_Params] : n \in 0..MaxParams}}

\* the URLs: without hash, or with a hash fragment (which may be empty)
hr_Urls == {hr_Base} \cup {hr_Base \o <<"#">> \o h : h \in hr_Hashes}

\* the position of the first c in t, 0 when there is none
hr_Find(t, c) ==
    IF \E i \in 1..Len(t) : t[i] = c
    THEN CHOOSE i \in 1..Len(t) : t[i] = c /\ \A j \in 1..(i - 1) : t[j] # c
    ELSE 0

\* str.split(c)
RECURSIVE hr_Split(_, _)
hr_Split(t, c) ==
    IF hr_Find(t, c) = 0 THEN <<t>>
    ELSE <<SubSeq(t, 1, hr_Find(t, c) - 1)>>
         \o hr_Split(SubSeq(t, hr_Find(t, c) + 1, Len(t)), c)

\* str.startswith(w)
hr_StartsWith(t, w) == Len(w) <= Len(t) /\ SubSeq(t, 1, Len(w)) = w

\* str(page_number), for a page number of one digit
hr_Str(page_number) == <<pp_DigitChars[page_number + 1]>>

hr_PageEq == <<"p", "a", "g", "e", "=">>

\* line 37: the default hash, around the page number
hr_DefaultHead == <<"m", "o", "d", "e", "=", "g", "a", "l", "l", "e", "r", "y", "&", "t", "t", "=", "2", "6", "1", "&", "c", "u", "r", "=", "T", "N", "D", "&", "s", "b", "=", "M", "o", "s", "t", "R", "e", "c", "e", "n", "t", "&", "p", "a", "g", "e", "=">>

hr_DefaultTail == <<"&", "s", "c", "=", "1", "0", "4", "8">>

\* lines 24-29: the parameters, those that start with page= replaced
hr_Replace(params, page_number) ==
    [k \in 1..Len(params) |->
        IF hr_StartsWith(params[k], hr_PageEq) THEN hr_PageEq \o hr_Str(page_number)
        ELSE params[k]]

\* no hash counting as holding a page parameter
hr_PageTestNever(hash_part) == FALSE

\* line 22: "page=" in hash_part
hr_PageTest(hash_part) == cm_In(hr_PageEq, hash_part)

\* lines 6-37: handle_remax_hash_pagination
handle_remax_hash_pagination(current_url, page_number) ==
    IF hr_Find(current_url, "#") # 0
    THEN LET base_url == SubSeq(current_url, 1, hr_Find(current_url, "#") - 1)
             hash_part == SubSeq(current_url, hr_Find(current_url, "#") + 1,
                                 Len(current_url))
         IN  IF hr_PageTest(hash_part)
             THEN base_url \o <<"#">>
                  \o hr_JoinWith(hr_Replace(hr_Split(hash_part, "&"), page_number), "&")
             ELSE current_url \o <<"&">> \o hr_PageEq \o hr_Str(page_number)
    ELSE current_url \o <<"#">> \o hr_DefaultHead \o hr_Str(page_number)
         \o hr_DefaultTail

HrInit ==
    /\ hr_pc = "idle"
    /\ hr_current_url = <<>>
    /\ hr_page_number = 0
    /\ hr_result = <<>>
    /\ hr_next_page = 0
    /\ hr_twice = <<>>
    /\ hr_once = <<>>

\* a call handle_remax_hash_pagination(current_url, page_number)
HrCall ==
    /\ hr_pc = "idle"
    /\ \E u \in hr_Urls, n \in 1..MaxPageNumber :
        /\ hr_current_url' = u
        /\ hr_page_number' = n
    /\ hr_pc' = "called"
    /\ UNCHANGED <<hr_result, hr_next_page, hr_twice, hr_once>>

\* lines 6-37: the function runs and returns
HrHandle ==
    /\ hr_pc = "called"
    /\ hr_result' = handle_remax_hash_pagination(hr_current_url, hr_page_number)
    /\ hr_pc' = "returned"
    /\ UNCHANGED <<hr_current_url, hr_page_number, hr_next_page, hr_twice, hr_once>>

\* the pagination goes on from the URL returned (the caller's loop passes
\* the page's URL, set by the last call, with the next page number); the
\* same page number is asked of the first URL for comparison
HrHandleAgain ==
    /\ hr_pc = "returned"
    /\ \E n \in 1..MaxPageNumber :
        /\ hr_next_page' = n
        /\ hr_twice' = handle_remax_hash_pagination(hr_result, n)
        /\ hr_once' = handle_remax_hash_pagination(hr_current_url, n)
    /\ hr_pc' = "returned_again"
    /\ UNCHANGED <<hr_current_url, hr_page_number, hr_result>>

\* the caller takes the URL
HrDone ==
    /\ hr_pc \in {"returned", "returned_again"}
    /\ hr_pc' = "idle"
    /\ hr_current_url' = <<>>
    /\ hr_page_number' = 0
    /\ hr_result' = <<>>
    /\ hr_next_page' = 0
    /\ hr_twice' = <<>>
    /\ hr_once' = <<>>

HrNext ==
    \/ HrCall /\ UNCHANGED hr_frame
    \/ HrHandle /\ UNCHANGED hr_frame
    \/ HrHandleAgain /\ UNCHANGED hr_frame
    \/ HrDone /\ UNCHANGED hr_frame

(***************************************************************************)
(* remax_integration.py : scrape_remax_site                                *)
(***************************************************************************)
\* lines 43-112: get_remax_pagination_handler: AgentQL when preferred and
\* installed with its module, else the hash module when present, else the
\* basic handler
rx_HandlerType(use_agentql, agentql_available, agentql_module_exists, hash_module_exists) ==
    IF use_agentql /\ agentql_available /\ agentql_module_exists THEN "agentql"
    ELSE IF hash_module_exists THEN "hash"
    ELSE "basic"

RxInit ==
    /\ rx_pc = "idle"
    /\ rx_type = "basic"
    /\ rx_browser_page = FALSE
    /\ rx_max_pages = 0
    /\ rx_page_count = 0
    /\ rx_found = 0
    /\ rx_all_properties = 0

\* lines 114-146: the call: the handler is chosen, all_properties = [], and
\* the branch is taken
RxStart ==
    /\ rx_pc = "idle"
    /\ \E use_agentql, agentql_available, agentql_module_exists,
          hash_module_exists, browser_page \in BOOLEAN, max_pages \in 1..MaxConfigPages :
        LET type == rx_HandlerType(use_agentql, agentql_available,
                                   agentql_module_exists, hash_module_exists)
        IN  /\ rx_type' = type
            /\ rx_browser_page' = browser_page
            /\ rx_max_pages' = max_pages
            /\ rx_pc' = IF type = "agentql" THEN "agentql"
                        ELSE IF browser_page THEN "pages"
                        ELSE "no_handler"
    /\ rx_page_count' = 1
    /\ rx_found' = 0
    /\ rx_all_properties' = 0

\* line 140 and remax_agentql_pagination lines 94-118: the AgentQL scraper
\* hands the listings of a page to collect_properties, which extends
\* all_properties
RxAgentqlPage ==
    /\ rx_pc = "agentql"
    /\ rx_page_count <= rx_max_pages
    /\ \E n \in 0..MaxProducts :
        /\ rx_found' = rx_found + n
        /\ rx_all_properties' = rx_all_properties + n
    /\ rx_page_count' = rx_page_count + 1
    /\ UNCHANGED <<rx_pc, rx_type, rx_browser_page, rx_max_pages>>

\* line 140: the AgentQL scraper returns, at max_pages or at the last page
RxAgentqlDone ==
    /\ rx_pc = "agentql"
    /\ rx_pc' = "returned"
    /\ UNCHANGED <<rx_type, rx_browser_page, rx_max_pages, rx_page_count,
                   rx_found, rx_all_properties>>

\* lines 148-168: one page in hash or basic mode: the page's URL is built
\* and navigated to, the page is scrolled, page_count += 1; the listings of
\* the page are not read (lines 164-165 are comments)
RxHashPage ==
    /\ rx_pc = "pages"
    /\ rx_page_count <= rx_max_pages
    /\ \E n \in 0..MaxProducts : rx_found' = rx_found + n
    /\ rx_page_count' = rx_page_count + 1
    /\ UNCHANGED <<rx_pc, rx_type, rx_browser_page, rx_max_pages, rx_all_properties>>

\* lines 156-161: goto or evaluate throws; nothing catches it
RxHashPageError ==
    /\ rx_pc = "pages"
    /\ rx_page_count <= rx_max_pages
    /\ rx_pc' = "raised"
    /\ UNCHANGED <<rx_type, rx_browser_page, rx_max_pages, rx_page_count,
                   rx_found, rx_all_properties>>

\* lines 148, 176: page_count > max_pages: return all_properties
RxHashDone ==
    /\ rx_pc = "pages"
    /\ rx_page_count > rx_max_pages
    /\ rx_pc' = "returned"
    /\ UNCHANGED <<rx_type, rx_browser_page, rx_max_pages, rx_page_count,
                   rx_found, rx_all_properties>>

\* lines 173-176: hash or basic mode without browser_page: an error is
\* logged and the empty list returned
RxNoHandler ==
    /\ rx_pc = "no_handler"
    /\ rx_pc' = "returned"
    /\ UNCHANGED <<rx_type, rx_browser_page, rx_max_pages, rx_page_count,
                   rx_found, rx_all_properties>>

\* the caller takes the list, or the exception
RxDone ==
    /\ rx_pc \in {"returned", "raised"}
    /\ rx_pc' = "idle"
    /\ rx_type' = "basic"
    /\ rx_browser_page' = FALSE
    /\ rx_max_pages' = 0
    /\ rx_page_count' = 0
    /\ rx_found' = 0
    /\ rx_all_properties' = 0

RxNext ==
    \/ RxStart /\ UNCHANGED rx_frame
    \/ RxAgentqlPage /\ UNCHANGED rx_frame
    \/ RxAgentqlDone /\ UNCHANGED rx_frame
    \/ RxHashPage /\ UNCHANGED rx_frame
    \/ RxHashPageError /\ UNCHANGED rx_frame
    \/ RxHashDone /\ UNCHANGED rx_frame
    \/ RxNoHandler /\ UNCHANGED rx_frame
    \/ RxDone /\ UNCHANGED rx_frame

(***************************************************************************)
(* devis_generator.py : DevisGenerator.create_devis                        *)
(***************************************************************************)
MaxDevis == 2
MaxMinutes == 2
dg_SecondsPerMinute == 60

\* line 141: strftime('%Y%m%d%H%M') keeps the fields down to the minute and
\* drops the seconds
dg_Strftime(now) == now \div dg_SecondsPerMinute

\* lines 139-142: generate_devis_number
generate_devis_number(now) == <<"DEV-", dg_Strftime(now)>>

\* lines 150, 287, 326: f"devis_{devis_data['numero']}.<ext>"
dg_Filename(numero, ext) == <<"devis_", numero, ".", ext>>

\* lines 145-147, 278-283: the PDF when ReportLab is there and builds it,
\* the text file otherwise
dg_DocumentExt(reportlab) == IF reportlab THEN "pdf" ELSE "txt"

\* open(filename, 'w'): the file is created or replaced
dg_Write(files, filename, devis) ==
    [f \in DOMAIN files \cup {filename} |->
        IF f = filename THEN devis ELSE files[f]]

DgInit ==
    /\ dg_now = 0
    /\ dg_devis = <<>>
    /\ dg_files = <<>>

\* the clock
DgTick ==
    /\ dg_now < MaxMinutes * dg_SecondsPerMinute - 1
    /\ dg_now' = dg_now + 1
    /\ UNCHANGED <<dg_devis, dg_files>>

\* lines 59-63: create_devis with no valid material returns None
DgCreateNothing ==
    /\ Len(dg_devis) < MaxDevis
    /\ UNCHANGED <<dg_now, dg_devis, dg_files>>

\* lines 44-98: create_devis: the number is generated, the document and the
\* JSON file are written
DgCreateDevis ==
    /\ Len(dg_devis) < MaxDevis
    /\ \E reportlab \in BOOLEAN :
        LET numero == generate_devis_number(dg_now)
            id == Len(dg_devis) + 1
            pdf_file == dg_Filename(numero, dg_DocumentExt(reportlab))
            json_file == dg_Filename(numero, "json")
        IN  /\ dg_devis' = Append(dg_devis,
                  [numero |-> numero, pdf_file |-> pdf_file, json_file |-> json_file])
            /\ dg_files' = dg_Write(dg_Write(dg_files, pdf_file, id), json_file, id)
    /\ UNCHANGED dg_now

DgNext ==
    \/ DgTick /\ UNCHANGED dg_frame
    \/ DgCreateNothing /\ UNCHANGED dg_frame
    \/ DgCreateDevis /\ UNCHANGED dg_frame

(***************************************************************************)
(* price_monitor.py : PriceMonitor.store_price_data, detect_price_changes, *)
(* create_alerts, send_alert_notifications                                 *)
(***************************************************************************)
MaxDetects == 2
MaxFileRows == 2

\* lines 25-26: alert_thresholds
pm_price_increase == 10
pm_price_decrease == 15
\* line 135: days_back=7
pm_days_back == 7

\* scraped_date of the rows, in days before now
pm_Ages == {0, 7, 8}
pm_Prices == {0, 88, 100, 120}
pm_NoPrice == 0 - 1
pm_FileRows == [age : pm_Ages, price : pm_Prices]
pm_Files == UNION {[1..n -> pm_FileRows] : n \in 1..MaxFileRows}

\* lines 108-123: INSERT OR IGNORE under UNIQUE(product_name, site,
\* scraped_date), row after row
RECURSIVE pm_InsertAll(_, _, _)
pm_InsertAll(history, rows, i) ==
    IF i > Len(rows) THEN history
    ELSE pm_InsertAll(
            IF history[rows[i].age] = pm_NoPrice
            THEN [history EXCEPT ![rows[i].age] = rows[i].price]
            ELSE history,
            rows, i + 1)

\* lines 141-150: ROW_NUMBER() ... ORDER BY scraped_date DESC, rn = 1: the
\* most recent of the rows whose age is in ages
pm_LatestAge(history, ages) ==
    CHOOSE a \in ages :
        /\ history[a] # pm_NoPrice
        /\ \A b \in ages : history[b] # pm_NoPrice => a <= b

pm_Min(a, b) == IF a <= b THEN a ELSE b

pm_Abs(a) == IF a < 0 THEN 0 - a ELSE a

\* lines 140-166: the query: the latest price against the latest price at
\* least days_back days old, kept when |change_pct| >= the smaller
\* threshold; a division by zero is NULL in SQLite and fails the test
pm_Query(history) ==
    LET old == {a \in pm_Ages : a >= pm_days_back /\ history[a] # pm_NoPrice}
        all == {a \in pm_Ages : history[a] # pm_NoPrice}
    IN  IF old = {} THEN <<>>
        ELSE LET l == history[pm_LatestAge(history, all)]
                 o == history[pm_LatestAge(history, old)]
             IN  IF /\ o # 0
                    /\ pm_Abs(l - o) * 100 >=
                           pm_Min(pm_price_increase, pm_price_decrease) * o
                 THEN <<[old_price |-> o, new_price |-> l]>>
                 ELSE <<>>

\* lines 188-193: the alert type from change_pct = (new - old) / old * 100
pm_AlertType(change) ==
    IF (change.new_price - change.old_price) * 100 > pm_price_increase * change.old_price
    THEN "HAUSSE"
    ELSE IF (change.new_price - change.old_price) * 100 <
                (0 - pm_price_decrease) * change.old_price
    THEN "BAISSE"
    ELSE "none"

\* a monitor with its two tables created and its logger assigned, no price
\* stored yet (the methods are taken on a built monitor; the constructor is
\* modelled apart, below)
PmInit ==
    /\ pm_pc = "idle"
    /\ pm_history = [a \in pm_Ages |-> pm_NoPrice]
    /\ pm_email_configured = FALSE
    /\ pm_changes = <<>>
    /\ pm_alerts = <<>>
    /\ pm_detects = 0
    /\ pm_fresh = FALSE
    /\ pm_repeat = FALSE
    /\ pm_inserted = 0

\* lines 32-38: the owner fills in email_config ("à personnaliser")
PmConfigureEmail ==
    /\ pm_pc = "idle"
    /\ ~pm_email_configured
    /\ pm_email_configured' = TRUE
    /\ UNCHANGED <<pm_pc, pm_history, pm_changes, pm_alerts, pm_detects,
                   pm_fresh, pm_repeat, pm_inserted>>

\* lines 92-133: store_price_data: the file's rows are inserted, or the
\* file cannot be read and False is returned
PmStorePriceData ==
    /\ pm_pc = "idle"
    /\ \E readable \in BOOLEAN, rows \in pm_Files :
        LET stored == IF readable THEN pm_InsertAll(pm_history, rows, 1)
                      ELSE pm_history
        IN  /\ pm_history' = stored
            /\ pm_fresh' = (pm_fresh \/ stored # pm_history)
    /\ UNCHANGED <<pm_pc, pm_email_configured, pm_changes, pm_alerts,
                   pm_detects, pm_repeat, pm_inserted>>

\* lines 135-178: detect_price_changes: the query; with changes
\* create_alerts is called
PmDetectPriceChanges ==
    /\ pm_pc = "idle"
    /\ pm_detects < MaxDetects
    /\ pm_detects' = pm_detects + 1
    /\ pm_changes' = pm_Query(pm_history)
    /\ pm_repeat' = (pm_detects >= 1 /\ ~pm_fresh /\ pm_inserted > 0)
    /\ pm_fresh' = FALSE
    /\ pm_inserted' = 0
    /\ pm_pc' = IF pm_Query(pm_history) # <<>> THEN "create_alerts" ELSE "idle"
    /\ UNCHANGED <<pm_history, pm_email_configured, pm_alerts>>

\* lines 180-222: create_alerts: each change of type HAUSSE or BAISSE is
\* inserted (price_alerts has no UNIQUE constraint, so OR IGNORE ignores
\* nothing); an insert that throws is logged; with alerts created the
\* notifications are sent
PmCreateAlerts ==
    /\ pm_pc = "create_alerts"
    /\ \E insert_ok \in BOOLEAN :
        LET type == pm_AlertType(pm_changes[1])
            created == type # "none" /\ insert_ok
        IN  /\ pm_alerts' = IF created
                            THEN Append(pm_alerts,
                                   [alert_type |-> type, sent |-> FALSE, emailed |-> FALSE])
                            ELSE pm_alerts
            /\ pm_inserted' = IF created THEN pm_inserted + 1 ELSE pm_inserted
            /\ pm_pc' = IF created THEN "notify" ELSE "idle"
    /\ pm_changes' = <<>>
    /\ UNCHANGED <<pm_history, pm_email_configured, pm_detects, pm_fresh, pm_repeat>>

\* lines 297-318: send_email: the SMTP exchange passes, or throws and the
\* exception is logged and swallowed
pm_SendEmail(smtp_ok) == smtp_ok

\* lines 224-264: send_alert_notifications, from create_alerts or called
\* directly: the unsent alerts are mailed if the email is configured, the
\* report is written, and the alerts are marked sent; a report that throws
\* leaves them unmarked
PmSendAlertNotifications ==
    /\ pm_pc \in {"idle", "notify"}
    /\ \E smtp_ok, report_ok \in BOOLEAN :
        LET mailed == pm_email_configured /\ pm_SendEmail(smtp_ok)
        IN  pm_alerts' = [i \in DOMAIN pm_alerts |->
                IF pm_alerts[i].sent THEN pm_alerts[i]
                ELSE [pm_alerts[i] EXCEPT
                        !.emailed = pm_alerts[i].emailed \/ mailed,
                        !.sent = report_ok]]
    /\ pm_pc' = "idle"
    /\ UNCHANGED <<pm_history, pm_email_configured, pm_changes, pm_detects,
                   pm_fresh, pm_repeat, pm_inserted>>

PmNext ==
    \/ PmConfigureEmail /\ UNCHANGED pm_frame
    \/ PmStorePriceData /\ UNCHANGED pm_frame
    \/ PmDetectPriceChanges /\ UNCHANGED pm_frame
    \/ PmCreateAlerts /\ UNCHANGED pm_frame
    \/ PmSendAlertNotifications /\ UNCHANGED pm_frame

(***************************************************************************)
(* price_monitor.py : PriceMonitor.__init__, setup_database, setup_logging *)
(***************************************************************************)
MaxTableRows == 4

pi_NoTable == 0 - 1
pi_TableStates == {pi_NoTable} \cup 0..MaxTableRows

\* CREATE TABLE IF NOT EXISTS: a table that is there keeps its rows
pi_CreateIfNotExists(table) == IF table = pi_NoTable THEN 0 ELSE table

PiInit ==
    /\ pi_pc = "idle"
    /\ pi_logger = FALSE
    /\ pi_history_table = pi_NoTable
    /\ pi_alerts_table = pi_NoTable

\* lines 19-21, 54-55: PriceMonitor(db_path): a new object, without
\* attribute logger, on whatever file db_path names; setup_database is
\* called first and connects
PiConstruct ==
    /\ pi_pc = "idle"
    /\ \E history_table, alerts_table \in pi_TableStates :
        /\ pi_history_table' = history_table
        /\ pi_alerts_table' = alerts_table
    /\ pi_logger' = FALSE
    /\ pi_pc' = "setup_database"

\* line 54: sqlite3.connect throws (db_path cannot be opened)
PiConnectError ==
    /\ pi_pc = "setup_database"
    /\ pi_pc' = "operational_error"
    /\ UNCHANGED <<pi_logger, pi_history_table, pi_alerts_table>>

\* lines 57-88: both tables are created if missing, commit, close
PiCreateTables ==
    /\ pi_pc = "setup_database"
    /\ pi_history_table' = pi_CreateIfNotExists(pi_history_table)
    /\ pi_alerts_table' = pi_CreateIfNotExists(pi_alerts_table)
    /\ pi_pc' = "log_initialised"
    /\ UNCHANGED pi_logger

\* lines 90, 22-38: self.logger.info(...) raises AttributeError without the
\* attribute; otherwise setup_logging assigns self.logger and the thresholds
\* and the email configuration are set
PiLogInitialised ==
    /\ pi_pc = "log_initialised"
    /\ IF pi_logger
       THEN /\ pi_logger' = TRUE
            /\ pi_pc' = "constructed"
       ELSE /\ pi_pc' = "attribute_error"
            /\ UNCHANGED pi_logger
    /\ UNCHANGED <<pi_history_table, pi_alerts_table>>

\* the caller holds the object or the exception; the next construction
PiDone ==
    /\ pi_pc \in {"constructed", "attribute_error", "operational_error"}
    /\ pi_pc' = "idle"
    /\ UNCHANGED <<pi_logger, pi_history_table, pi_alerts_table>>

PiNext ==
    \/ PiConstruct /\ UNCHANGED pi_frame
    \/ PiConnectError /\ UNCHANGED pi_frame
    \/ PiCreateTables /\ UNCHANGED pi_frame
    \/ PiLogInitialised /\ UNCHANGED pi_frame
    \/ PiDone /\ UNCHANGED pi_frame

Init ==
    /\ TcInit
    /\ SsInit
    /\ EpInit
    /\ ReInit
    /\ MnInit
    /\ TpInit
    /\ MsInit
    /\ MpInit
    /\ SmInit
    /\ CpInit
    /\ FsInit
    /\ PpInit
    /\ CmInit
    /\ SuInit
    /\ HrInit
    /\ RxInit
    /\ DgInit
    /\ PmInit
    /\ PiInit

SpecTecno == Init /\ [][TcNext]_vars

SpecSingle == Init /\ [][SsNext]_vars

\* C1: the page loop of scrape_tecnocasa_region processes at most max_pages
\* pages for a region, whatever the site serves.
C1_PagesBounded == tc_pages_processed <= tc_max_pages

\* C2: during one call of scrape_site at most max_pages - 1 next-page clicks
\* are performed, so the browser is never advanced past page max_pages.
C2_ClicksBounded == ss_pc # "idle" => ss_clicks <= ss_max_pages - 1

SpecExtract == Init /\ [][EpNext]_vars

\* the text the claim expects for a field: that of the first candidate, in
\* list order, whose element has non-empty text after trimming
RECURSIVE ep_FirstNonEmpty(_, _)
ep_FirstNonEmpty(cands, i) ==
    IF i > Len(cands) THEN ep_Absent
    ELSE IF cands[i].kind = "element" /\ Strip(cands[i].text) # <<>>
         THEN ep_Value(Strip(cands[i].text))
         ELSE ep_FirstNonEmpty(cands, i + 1)

ep_NoThrow(cands) == \A i \in 1..Len(cands) : cands[i].kind # "throws"

\* C3: for each field, extract_property stores the text of the first
\* candidate whose first matching element has non-empty text after trimming;
\* a candidate whose match has empty text does not end the search.
C3_FirstNonEmptyCandidate ==
    (ep_pc = "returned" /\ ep_NoThrow(ep_item.title) /\ ep_NoThrow(ep_item.price)) =>
        /\ ep_FirstNonEmpty(ep_item.title, 1).kind = "value"
              => ep_data.title = ep_FirstNonEmpty(ep_item.title, 1)
        /\ ep_FirstNonEmpty(ep_item.price, 1).kind = "value"
              => ep_data.price = ep_FirstNonEmpty(ep_item.price, 1)

SpecRE == Init /\ [][ReNext]_vars

\* C4: extract_text and extract_attribute never raise; when the selector
\* matches nothing, or the element query throws, they return an empty value.
C4_NeverRaises ==
    re_pc = "returned" =>
        /\ ~re_result.raised
        /\ re_dom.kind \in {"nomatch", "throws"} => re_result.value = re_Str(<<>>)

\* extract_attribute has returned "" although the element query threw
C4_Witness ==
    /\ re_pc = "returned"
    /\ re_fn = "extract_attribute"
    /\ re_dom.kind = "throws"
    /\ re_result.value = re_Str(<<>>)

SpecMain == Init /\ [][MnNext]_vars

\* C5: an exception raised while scraping one site (the initial page.goto
\* failing) is caught inside scrape_properties, which returns normally, and
\* main goes on to the next site.
C5_SiteErrorContained ==
    tp_goto_failed => (tp_pc # "raised" /\ mn_pc # "aborted")

SpecMaterial == Init /\ [][MsNext]_vars

\* C6: with pagination, scrape_with_requests requests every page
\* 1..max_pages exactly once, in increasing order; a failed fetch or parse of
\* a page adds no record for that page and does not keep the following pages
\* from being requested.
C6_EveryPageRequestedOnce ==
    /\ ms_pc # "raised"
    /\ \A i \in 1..Len(ms_requests) : ms_PageOf(ms_requests[i]) = i
    /\ Len(ms_requests) <= ms_max_pages
    /\ ms_pc = "done" => Len(ms_requests) = ms_max_pages
    /\ \A i \in 1..Len(ms_materials) :
           ms_PageOf(ms_materials[i].url_source) \notin ms_failed

\* the method has ended after page 1 failed and page 2 gave a record
C6_Witness ==
    /\ ms_pc = "done"
    /\ 1 \in ms_failed
    /\ \E i \in 1..Len(ms_materials) : ms_PageOf(ms_materials[i].url_source) = 2

SpecMulti == Init /\ [][MpNext]_vars

\* C7: when URL-based pagination is used after processing page N
\* (page_count = N), the URL navigated to carries page number N + 1, for
\* every site pattern.
C7_UrlCarriesNextPage == mp_nav # mp_NoNav => mp_nav.to = mp_nav.from + 1

SpecSimple == Init /\ [][SmNext]_vars

\* C8: every record that scrape_site_with_requests appends to self.materials
\* has a non-empty name.
C8_NamesNonEmpty == \A i \in 1..Len(sm_materials) : sm_materials[i].nom # <<>>

SpecCompare == Init /\ [][CpNext]_vars

\* C10: in every comparison row, meilleur_prix is the minimum price of the
\* group (no priced member is cheaper), meilleur_fournisseur is the site of a
\* member with that price, and economie_possible = prix_max - prix_min.
C10_BestIsGroupMinimum ==
    cp_pc = "appended" =>
        /\ (\E i \in 1..Len(cp_group) : ~cp_group[i].prix.nan) =>
               /\ ~cp_row.meilleur_prix.nan
               /\ \A i \in 1..Len(cp_group) :
                      ~cp_group[i].prix.nan =>
                          cp_row.meilleur_prix.v <= cp_group[i].prix.v
        /\ \E i \in 1..Len(cp_group) :
               /\ cp_group[i].site = cp_row.meilleur_fournisseur
               /\ cp_group[i].prix = cp_row.meilleur_prix
        /\ cp_row.economie_possible = cp_Sub(cp_row.prix_max, cp_row.prix_min)

\* C11: compare_prices never divides by zero: a row whose prix_max is 0
\* carries economie_pourcentage = 0, and a row whose prix_max is positive
\* carries economie_pourcentage = economie_possible / prix_max * 100.
C11_NoDivisionByZero ==
    cp_pc = "appended" =>
        /\ cp_row.economie_pourcentage.den # 0
        /\ (~cp_row.prix_max.nan /\ cp_row.prix_max.v = 0) =>
               cp_row.economie_pourcentage = [nan |-> FALSE, num |-> 0, den |-> 1]
        /\ (~cp_row.prix_max.nan /\ cp_row.prix_max.v > 0) =>
               /\ ~cp_row.economie_possible.nan
               /\ cp_row.economie_pourcentage =
                      [nan |-> FALSE, num |-> cp_row.economie_possible.v * 100,
                       den |-> cp_row.prix_max.v]

\* a group whose every price is 0 was compared
C11_Witness ==
    /\ cp_pc = "appended"
    /\ Len(cp_group) >= 2
    /\ \A i \in 1..Len(cp_group) : cp_group[i].prix = cp_Num(0)
    /\ cp_row.prix_max = cp_Num(0)


SpecPipeline == Init /\ [][FsNext]_vars

\* rows i and j carry the same normalized name at different prices, and the
\* name of row k is similar to neither
fs_TwoAlikeOneApart(i, j, k) ==
    /\ fs_data[i].nom_normalise = fs_data[j].nom_normalise
    /\ ~fs_data[i].prix.nan /\ ~fs_data[j].prix.nan
    /\ fs_data[i].prix.v < fs_data[j].prix.v
    /\ 10 * 2 * fs_Matches(fs_data[i].nom_normalise, fs_data[k].nom_normalise,
                           1, Len(fs_data[i].nom_normalise),
                           1, Len(fs_data[k].nom_normalise))
           < 6 * (Len(fs_data[i].nom_normalise) + Len(fs_data[k].nom_normalise))
    /\ 10 * 2 * fs_Matches(fs_data[k].nom_normalise, fs_data[i].nom_normalise,
                           1, Len(fs_data[k].nom_normalise),
                           1, Len(fs_data[i].nom_normalise))
           < 6 * (Len(fs_data[i].nom_normalise) + Len(fs_data[k].nom_normalise))

\* C12: find_similar_products and then compare_prices on three listings, two
\* with the same normalized name at different prices and one dissimilar to
\* both, give exactly one comparison row, covering exactly the two same-named
\* listings, with the cheaper listing's site as meilleur_fournisseur.
C12_ThreeListings ==
    (fs_pc = "compared" /\ Len(fs_data) = 3) =>
        \A i, j, k \in 1..3 :
            ({i, j, k} = 1..3 /\ fs_TwoAlikeOneApart(i, j, k)) =>
                /\ Len(fs_comparisons) = 1
                /\ {fs_comparisons[1].details[m].site :
                        m \in 1..Len(fs_comparisons[1].details)} = {i, j}
                /\ Len(fs_comparisons[1].details) = 2
                /\ fs_comparisons[1].row.meilleur_fournisseur = i

\* the scenario ran with the cheaper listing last in the table
C12_Witness ==
    /\ fs_pc = "compared"
    /\ Len(fs_data) = 3
    /\ fs_TwoAlikeOneApart(3, 1, 2)
    /\ Len(fs_comparisons) = 1


SpecPrice == Init /\ [][PpNext]_vars

\* C13: MaterialScraper.clean_price returns 1234.50 for '1 234,50 DT', 99.0
\* for '99DT' and no value for 'abc'.
C13_CleanPriceExamples ==
    (pp_pc = "returned" /\ pp_fn = "MaterialScraper") =>
        /\ pp_text = <<"1", " ", "2", "3", "4", ",", "5", "0", " ", "D", "T">> =>
               /\ pp_result.found
               /\ (pp_result.scale = 0 => pp_result.num * 100 = 123450)
               /\ (pp_result.scale = 1 => pp_result.num * 10 = 123450)
               /\ (pp_result.scale = 2 => pp_result.num = 123450)
               /\ pp_result.scale <= 2
        /\ pp_text = <<"9", "9", "D", "T">> =>
               pp_result = [found |-> TRUE, num |-> 99, scale |-> 0]
        /\ pp_text = <<"a", "b", "c">> => ~pp_result.found

RECURSIVE pp_Pow10(_)
pp_Pow10(n) == IF n = 0 THEN 1 ELSE 10 * pp_Pow10(n - 1)

\* the value r is the number num / 10^scale
pp_Equals(r, num, scale) ==
    r.found /\ r.num * pp_Pow10(scale) = num * pp_Pow10(r.scale)

\* C14: BricoDirectScraper.clean_price reads a comma followed by one or two
\* digits as the decimal point ('12,50 DT' gives 12.50) and a comma followed
\* by three digits as a thousands separator.
C14_CommaByGroupLength ==
    (pp_pc = "returned" /\ pp_fn = "BricoDirectScraper") =>
        \A l \in pp_Leads, b \in pp_Gaps, c \in pp_Suffixes :
            /\ pp_text = l \o <<",", "5", "0">> \o b \o c =>
                   pp_Equals(pp_result, pp_IntOf(l, 0) * 100 + 50, 2)
            /\ pp_text = l \o <<",", "5">> \o b \o c =>
                   pp_Equals(pp_result, pp_IntOf(l, 0) * 10 + 5, 1)
            /\ pp_text = l \o <<",", "2", "3", "4">> \o b \o c =>
                   pp_Equals(pp_result, pp_IntOf(l, 0) * 1000 + 234, 0)


SpecCategorize == Init /\ [][CmNext]_vars

\* the categories of the table with a keyword in the lowered text of the call
cm_Hits ==
    {k \in 1..Len(cm_categories) :
        \E keyword \in cm_categories[k].keywords :
            cm_In(keyword, cm_Lower(cm_name \o <<" ">> \o cm_description))}

\* C15: categorize_material returns the category that comes first in the
\* table among those with a keyword in the text, wherever the keywords stand
\* in the text, and 'Autres matériaux' when no keyword occurs.
C15_FirstCategoryInTable ==
    cm_pc = "returned" =>
        IF cm_Hits = {} THEN cm_result = "Autres matériaux"
        ELSE \E k \in cm_Hits :
                /\ \A j \in cm_Hits : k <= j
                /\ cm_result = cm_categories[k].name

\* a name whose first word is a keyword of the last category and whose
\* second word is a keyword of the first category was categorized
C15_Witness ==
    /\ cm_pc = "returned"
    /\ cm_name = <<"v", "i", "s", " ", "c", "i", "m", "e", "n", "t">>
    /\ {1, 11} \subseteq cm_Hits
    /\ cm_result = cm_categories[1].name


SpecUnit == Init /\ [][SuNext]_vars

\* C16: extract_unit returns the default unit 'pièce' for a text that names
\* no unit (none of its words is a unit), such as 'produit générique'.
C16_DefaultUnit ==
    su_pc = "returned" =>
        \A ws \in su_WordLists :
            (/\ cm_Join(ws) = su_text
             /\ \A i \in 1..Len(ws), k \in 1..Len(su_units) :
                    cm_Lower(ws[i]) # su_units[k].chars)
                => su_result = "pièce"


SpecHash == Init /\ [][HrNext]_vars

\* C17: for every input URL, the URL handle_remax_hash_pagination returns
\* has a hash fragment with the parameter page=<page_number>.
C17_HashCarriesPage ==
    hr_pc = "returned" =>
        /\ hr_Find(hr_result, "#") # 0
        /\ \E k \in 1..Len(hr_Split(SubSeq(hr_result, hr_Find(hr_result, "#") + 1,
                                           Len(hr_result)), "&")) :
               hr_Split(SubSeq(hr_result, hr_Find(hr_result, "#") + 1,
                               Len(hr_result)), "&")[k]
                   = hr_PageEq \o hr_Str(hr_page_number)


SpecRemax == Init /\ [][RxNext]_vars

\* C18: in hash or basic mode scrape_remax_site returns the listings found
\* on the pages it navigated to.
C18_ReturnsListingsFound ==
    (rx_pc = "returned" /\ rx_type \in {"hash", "basic"} /\ rx_browser_page) =>
        rx_all_properties = rx_found


SpecDevis == Init /\ [][DgNext]_vars

\* C19: two devis created by the same generator never share a number or an
\* output filename.
C19_DistinctNumbers ==
    \A i, j \in DOMAIN dg_devis :
        i # j => /\ dg_devis[i].numero # dg_devis[j].numero
                 /\ dg_devis[i].json_file # dg_devis[j].json_file

\* C20: in scrape_properties the initial page load is attempted at most 5
\* times and no attempt follows a successful one; the page loop is entered
\* only after a successful attempt, otherwise the function returns the
\* empty list without processing any page.
C20_LoadAttempts ==
    /\ [](/\ mp_attempt <= 5
          /\ mp_pc \in {"loop", "listings", "next", "click", "clicked", "url"}
                => mp_page_loaded
          /\ (mp_pc = "done" /\ ~mp_page_loaded)
                => (mp_attempt = 5 /\ mp_page_count = 0 /\ mp_n_properties = 0))
    /\ [][mp_page_loaded => mp_attempt' = mp_attempt]_vars

\* C20 witness: five attempts failed and the function returned without a page
C20_Witness ==
    /\ mp_pc = "done"
    /\ ~mp_page_loaded
    /\ mp_attempt = 5
    /\ mp_page_count = 0


SpecMonitor == Init /\ [][PmNext]_vars

\* C21: an alert's sent flag is TRUE only if the notification email
\* containing that alert was actually sent.
C21_SentOnlyIfEmailed ==
    \A i \in DOMAIN pm_alerts : pm_alerts[i].sent => pm_alerts[i].emailed


\* C25: a detect_price_changes call that follows one that inserted the alert
\* of the detected change, with no price data stored in between, inserts no
\* new alert.
C25_SecondCallInsertsNothing ==
    (pm_repeat /\ pm_pc # "create_alerts") => pm_inserted = 0


SpecMonitorInit == Init /\ [][PiNext]_vars

\* C26: constructing a PriceMonitor never fails on self.logger: the
\* attribute is assigned before anything logs through it.
C26_LoggerAssignedBeforeUse == pi_pc # "attribute_error"


\* C22: every page after the first is processed after exactly one next-page
\* click since the page before it, so that the page_number of its records
\* is 1 plus the number of clicks performed.
C22_OneClickPerPage ==
    (tp_pc = "loop" /\ tp_page_count > 1) => tp_clicks = 1


\* C23: in scrape_tecnocasa_region page_count is incremented only after a
\* next-page click or goto has actually been performed.
C23_IncrementAfterClick ==
    [][(tc_pc = "clicked" /\ tc_page_count' = tc_page_count + 1) => tc_performed]_vars


\* C24: after the fallback from scrape_remax_site to scrape_properties,
\* all_properties holds no Remax listing recorded by both scrapers.
C24_NoListingTwice == mn_by_specialized \cap mn_by_standard = {}


\* C27: after find_similar_products any two rows whose normalized names are
\* similar at the threshold, in the order the code compares them or in the
\* other, are members of the same group.
C27_SimilarRowsShareGroup ==
    fs_pc = "grouped" =>
        \A i, j \in 1..Len(fs_data) :
            (i # j /\ fs_Similar(fs_data[i].nom_normalise, fs_data[j].nom_normalise)) =>
                \E g \in 1..Len(fs_similar_groups) :
                    {i, j} \subseteq {fs_similar_groups[g][k] :
                                        k \in 1..Len(fs_similar_groups[g])}


\* C28: handle_remax_hash_pagination is last-write-wins: for every URL u and
\* page numbers m and n, handle(handle(u, m), n) = handle(u, n).
C28_LastWriteWins == hr_pc = "returned_again" => hr_twice = hr_once

\* C28 witness: a URL whose hash carries a page parameter was moved to page
\* 1 and from there to page 2, and the second call changed the URL
C28_Witness ==
    /\ hr_pc = "returned_again"
    /\ hr_PageTest(hr_current_url)
    /\ hr_page_number = 1
    /\ hr_next_page = 2
    /\ hr_twice # hr_result
    /\ hr_twice = hr_once


\* C29: scrape_site leaves the shared selector configuration unchanged: the
\* property_selector that later pages and later calls read is the
\* configured one.
C29_ConfigUnchanged == ss_property_selector = ss_configured

====
